---------------------------- MODULE Spec2Model ----------------------------
(***************************************************************************)
(* State-machine model of the League of Legends FlexDesigner plugin core:  *)
(*   - LoLDataService  (src/src/services/LoLDataService.js)                *)
(*   - PluginCore      (src/src/PluginCore.js), connection handling        *)
(*   - KeyService      (src/src/services/KeyService.js)                    *)
(*   - StateManager    (src/src/services/StateManager.js)                  *)
(*                                                                         *)
(* The program is single threaded; every action below is one run of the    *)
(* event loop between two suspension points (an await on an outbound call  *)
(* or a timer).  Outbound calls in flight are explicit state.              *)
(***************************************************************************)
EXTENDS Integers, Sequences, FiniteSets, TLC

(***************************************************************************)
(* Bounds of the model                                                     *)
(***************************************************************************)
\* connection attempts (handleReconnection / attemptConnection) in flight
MaxConcurrentAttempts == 2
\* interval timers alive per endpoint (leaked ones included)
MaxTimers == 2
\* gameflow responses recorded in pollHist
MaxPolls == 3

\* render tasks (pending render timers and draw calls in flight)
MaxTasks == 2
\* bulk connection-state passes in progress
MaxPasses == 1
\* the clock stops at the horizon of the specification
MaxTime == 5
\* errorCounts stops growing here
MaxErrorCount == 2
\* pending retry timers per key
MaxRetryTimers == 1
\* saveState calls in flight at a time
MaxSaves == 2
\* isInActiveGame calls waiting for the client at a time
MaxLiveCalls == 2
\* runs of reinitializeAllKeys in progress at a time
MaxReinits == 1
\* last clock value of the live-game specifications
MaxLiveTime == 3

(***************************************************************************)
(* Program constants                                                       *)
(***************************************************************************)
\* LoLDataService options (constructor argument), instantiated small
maxReconnectAttempts == 2

\* KeyService options (constructor argument); one clock unit of the model
\* is 50 ms for throttleInterval and 500 ms for retryDelay
throttleInterval == 2
retryDelay == 2
maxRetries == 1
\* performCleanup drops render timestamps older than this
staleRenderAge == 300000
\* isInActiveGame reuses an answer younger than this (2000 ms; one clock
\* unit of the live-game specifications is 1 s)
gameStateCacheAge == 2

Devices == {"d1", "d2"}
Uids == {1, 2}
KeyIds == Devices \X Uids
NoKey == <<"", 0>>
\* payloads of updateKey; payloads of the bulk passes
Payloads == {"A", "B"}
OfflineImage == "offline"
StateText == "text"
\* absent lastRenderTime entry
NoTime == -1
\* renderQueue entry whose task has no pending timer
Stale == -1

\* options.endpointConfig restricted to two entries: the game-phase
\* endpoint and one endpoint with suppressErrors
Endpoints == {"gameflow", "champselect"}
suppressErrors == [e \in Endpoints |-> e = "champselect"]

\* values of /lol-gameflow/v1/gameflow-phase
Phases == {"ChampSelect", "InProgress"}
\* payload of the other endpoints
OtherData == "data"
\* JavaScript undefined / absent Map entry
Undefined == "undefined"

VARIABLES
  \* ---- LoLDataService fields ----
  isConnected, isInitialized, connectionAttempts, axios, processMonitor,
  endpointPollers, dataCache, lastKnownGameState,
  \* ---- runtime of LoLDataService: timers and calls in flight ----
  leagueRunning,     \* environment: the client process is running
  intervalTimers,    \* endpoint -> number of live setInterval pollers
  pollsInFlight,     \* endpoint -> an axios.get call is in flight (0 or 1)
  attempts,          \* bag: <<caller, stage>> -> number in flight
  checksInFlight,    \* isLeagueProcessRunning in flight: result -> 0 or 1
  reconnectTimers,   \* pending setTimeout(() => handleReconnection()), 0 or 1
  listening,         \* PluginCore listeners attached (until shutdown)
  attemptCap,        \* connection attempts in flight that the model follows
  histCap,           \* gameflow responses that the model records
  keyScope,          \* widgets, payloads and outcomes that the model
                     \* follows, and whether lastGood is recorded
  lolScope,          \* which observations of the services are recorded
  \* ---- observations ----
  ccParity,          \* flips with every connectionChanged event emitted
  ccLast,            \* payload of the latest connectionChanged event
  pollHist,          \* gameflow responses applied since dataCache was empty
  gsLog,             \* gameStateChanged events of the responses in pollHist
  lop,               \* the poll completed by the last step and its events
  attemptsStarted,   \* attemptConnection calls of handleReconnection since
                     \* connectionAttempts was last reset
  \* ---- PluginCore ----
  currentConnectionState,
  coreParity,        \* flips whenever handleConnectionChange acts
  \* ---- KeyService ----
  passes,            \* bulk connection-state passes in progress
  now,               \* Date.now()
  horizon,           \* last clock value of the specification
  connectedDevices, activeKeys,
  keyOrder,          \* insertion order of the activeKeys Map
  renderQueue,       \* key -> 0 (no entry), id of a pending timer, or Stale
  lastRenderTime, errorCounts,
  keyStates,         \* stateManager.state.keys: uid -> last payload
  isDirty,           \* stateManager.isDirty
  tasks,             \* id -> render timer or draw call in flight
  retryTimers,       \* setTimeout retries of handleKeyError
  \* ---- observations of KeyService ----
  kop,               \* the operation of the last step and what it did
  lastGood,          \* key -> start of its latest successful draw
  fails,             \* key -> failed updateKey draws in a row
  \* ---- StateManager ----
  state,             \* state.connections, .preferences, .cache, .metadata
  persistenceFile,   \* the JSON document of options.persistenceFile
  fresh,             \* a second StateManager, constructed to load the file
  \* ---- observations of StateManager ----
  savedFrom,         \* the Maps that the last saveState serialised
  saves,             \* saveState calls in flight
  tempFile,          \* the document of `${persistenceFile}.tmp`
  autoSaveTimer,     \* the auto-save interval is set (until shutdown)
  sop,               \* the StateManager operation of the last step
  changed,           \* a state-changing operation was called since the
                     \* last successful save (StateManager specifications)
  ttlGiven,          \* cache key -> the ttl argument of its last setCache
  uidType,           \* typeof key.uid, chosen by the host application
  \* ---- KeyHandlers and the live-game keys module ----
  isInGame,          \* KeyHandlers.isInGame
  liveKeys,          \* live widgets in KeyHandlers.activeKeys and keyData
  liveGameUpdateTimer, \* the module holds the handle of a 3 s interval
  liveIntervals,     \* intervals set by setInterval and not yet cleared
  cachedGameState,   \* "null", "true" or "false"
  lastGameStateCheck,
  liveCalls,         \* isInActiveGame calls awaiting client.get
  hop,               \* what the handler of the last step did
  \* ---- PluginCore: widgets and their re-initialisation ----
  registeredKeys,    \* PluginCore.registeredKeys, as a set of widgets
  reinit,            \* runs of reinitializeAllKeys: the widgets to go
  \* ---- the rank keys module ----
  keyQueueSelections, \* widget -> its queue, or Undefined
  rankKeys,          \* rank widgets in KeyHandlers.activeKeys
  rankedQueues,      \* environment: queues in which the summoner is ranked
  drawn,             \* widgets rendered since rankedQueues last changed
  rop                \* what the rank keys module did in the last step

lolRest == <<isInitialized, connectionAttempts, axios,
             processMonitor, endpointPollers, dataCache, lastKnownGameState,
             leagueRunning, intervalTimers, pollsInFlight, attempts,
             checksInFlight, reconnectTimers, listening, gsLog, pollHist,
             lop, attemptsStarted>>
lolVars == <<isConnected, lolRest>>
connVars == <<ccParity, ccLast, currentConnectionState, coreParity, reinit>>

\* KeyService state other than the passes
keyRest == <<now, horizon, connectedDevices, activeKeys, keyOrder,
             renderQueue, lastRenderTime, errorCounts, keyStates, isDirty,
             tasks, retryTimers, kop, lastGood, fails>>
keyVars == <<passes, keyRest>>

\* the scope of a specification is fixed by its initial state
scope == <<attemptCap, histCap, keyScope, uidType, lolScope>>

\* KeyHandlers and the modules of the widget kinds
handlerVars == <<isInGame, liveKeys, liveGameUpdateTimer, liveIntervals,
                 cachedGameState, lastGameStateCheck, liveCalls, hop>>
\* what no service touches
rankVars == <<keyQueueSelections, rankKeys, rankedQueues, drawn, rop>>
aside == <<scope, handlerVars, registeredKeys, rankVars>>

\* StateManager state other than state.keys and isDirty
\* what no state-changing operation of the StateManager touches
storeRest == <<persistenceFile, fresh, savedFrom, saves, tempFile,
               autoSaveTimer>>
store == <<state, storeRest, sop, changed, ttlGiven>>

vars == <<lolVars, connVars, keyVars, aside, store>>

(***************************************************************************)
(* Helpers                                                                 *)
(***************************************************************************)
AttemptKinds == {<<"init", "discover">>, <<"init", "validate">>,
                 <<"reconnect", "delay">>, <<"reconnect", "discover">>,
                 <<"reconnect", "validate">>}

RECURSIVE SumOver(_, _)
SumOver(f, S) ==
  IF S = {} THEN 0
  ELSE LET x == CHOOSE y \in S : TRUE IN f[x] + SumOver(f, S \ {x})

AttemptsInFlight == SumOver(attempts, AttemptKinds)
ChecksInFlight == SumOver(checksInFlight, BOOLEAN)

\* a render task: a pending render timer (t is its due time) or a draw
\* call in flight (t is the start of executeRender); via names the code
\* that awaits the draw: updateKey, a bulk pass (its try block or its
\* fallback), or nothing (the timer callback); orphan: the widget was
\* removed or registered again since the task was created
FreeTask == [st |-> "free", key |-> NoKey, payload |-> "", t |-> 0,
             via |-> "", orphan |-> FALSE]
TaskIds == 1..MaxTasks
NoOp == [op |-> "none"]

NoLolScope == [ops |-> FALSE, starts |-> FALSE, live |-> FALSE,
               store |-> FALSE]
\* the observation of a poll, where polls are observed
Observed(x) == IF lolScope.ops THEN x ELSE NoOp
\* a step that completes no poll
Quiet == lop' = NoOp

BagAdd(b, x) == [b EXCEPT ![x] = @ + 1]
BagDel(b, x) == [b EXCEPT ![x] = @ - 1]


(***************************************************************************)
(* KeyService: throttle, render queue, key removal                         *)
(***************************************************************************)
Max(a, b) == IF a >= b THEN a ELSE b
Abs(a) == IF a >= 0 THEN a ELSE 0 - a

\* isThrottled (a lastRenderTime of 0 would count as absent: the clock of
\* the model starts at 1)
IsThrottled(lrt, k) ==
  lrt[k] # NoTime /\ (now - lrt[k]) < throttleInterval

\* getThrottleDelay
GetThrottleDelay(lrt, k) ==
  IF lrt[k] = NoTime THEN 0
  ELSE Max(0, throttleInterval - (now - lrt[k]))

FreeIds(ts) == {i \in TaskIds : ts[i].st = "free"}
NewId(ts) == CHOOSE i \in FreeIds(ts) : \A j \in FreeIds(ts) : i <= j

\* clearTimeout(renderQueue.get(keyId).timeout): takes effect only when the
\* entry is a timer that has not fired
CancelTimer(ts, rq, k) ==
  IF rq[k] \in TaskIds THEN [ts EXCEPT ![rq[k]] = FreeTask] ELSE ts

\* a task slot is left for one more render of k
HasRoom(ts, rq, k) == FreeIds(CancelTimer(ts, rq, k)) # {}

\* queueRender up to its await: the render is deferred by a timer when the
\* key is inside its throttle window, otherwise executeRender starts (it
\* stamps lastRenderTime and calls plugin.draw); the entry of the queue is
\* written before the await only on the timer path
QueueRender(ts, rq, lrt, k, payload, via) ==
  LET ts1 == CancelTimer(ts, rq, k)
      delay == GetThrottleDelay(lrt, k)
      id == NewId(ts1)
  IN IF delay > 0
       THEN [tasks |-> [ts1 EXCEPT ![id] =
                          [st |-> "timer", key |-> k, payload |-> payload,
                           t |-> now + delay, via |-> "timer",
                           orphan |-> FALSE]],
             renderQueue |-> [rq EXCEPT ![k] = id],
             lastRenderTime |-> lrt,
             id |-> id, drawing |-> FALSE]
       ELSE [tasks |-> [ts1 EXCEPT ![id] =
                          [st |-> "draw", key |-> k, payload |-> payload,
                           t |-> now, via |-> via, orphan |-> FALSE]],
             renderQueue |-> [rq EXCEPT ![k] = IF @ = 0 THEN 0 ELSE Stale],
             lastRenderTime |-> [lrt EXCEPT ![k] = now],
             id |-> id, drawing |-> TRUE]

\* removeKey for every key of K: its pending timer is cancelled; the other
\* tasks of the key live on without their widget
TasksAfterRemoval(ts, rq, K) ==
  [i \in TaskIds |->
     IF ts[i].key \in K
       THEN IF rq[ts[i].key] = i THEN FreeTask
            ELSE [ts[i] EXCEPT !.orphan = TRUE]
       ELSE ts[i]]

\* registerKeys replaces the key objects: tasks keep the old ones
TasksAfterRegister(ts, K) ==
  [i \in TaskIds |->
     IF ts[i].key \in K THEN [ts[i] EXCEPT !.orphan = TRUE] ELSE ts[i]]

Without(f, K, v) == [k \in DOMAIN f |-> IF k \in K THEN v ELSE f[k]]

NotIn(K) == [k \in KeyIds |-> k \notin K]
OrderAfterRemoval(order, K) == SelectSeq(order, LAMBDA k : NotIn(K)[k])

(***************************************************************************)
(* KeyService.renderConnectionState / renderOfflineStateForAllKeys: a bulk *)
(* pass iterates the activeKeys Map (insertion order, live), awaiting the  *)
(* canvas and the draw of each key whose state is 'active'                 *)
(***************************************************************************)
\* index of the first key after position pos whose state is 'active'
NextActive(order, ak, pos) ==
  LET S == {i \in (pos + 1)..Len(order) : ak[order[i]] = "active"}
  IN IF S = {} THEN 0 ELSE CHOOSE i \in S : \A j \in S : i <= j

\* a pass suspended at key cur (position pos of the Map); todo: the keys
\* that were active when the pass began and that it has not rendered yet
PassAt(kind, order, pos, todo) ==
  [kind |-> kind, pos |-> pos, cur |-> order[pos],
   st |-> IF kind = "disconnected" THEN "canvas" ELSE "text",
   task |-> 0, todo |-> todo]

\* the iterator of a pass in progress follows the deletions of the Map
PassesAfterRemoval(ps, order, K) ==
  [j \in 1..Len(ps) |->
     [ps[j] EXCEPT
        !.pos = @ - Cardinality({x \in 1..@ : order[x] \in K}),
        !.todo = @ \ K]]

PassesAfterRegister(ps, K) ==
  [j \in 1..Len(ps) |-> [ps[j] EXCEPT !.todo = @ \ K]]

\* renderConnectionState up to its first await
RenderConnectionState(ps, connectionState, ak, order) ==
  LET first == NextActive(order, ak, 0) IN
  IF first = 0 THEN ps
  ELSE Append(ps, PassAt(connectionState, order, first,
                         {k \in KeyIds : ak[k] = "active"}))

\* the pass goes on after the key at p.pos: to the next active key, or ends
Advanced(p, ak, order) ==
  LET next == NextActive(order, ak, p.pos) IN
  IF next = 0 THEN <<>>
  ELSE <<[p EXCEPT !.pos = next, !.cur = order[next], !.task = 0,
                   !.st = IF p.kind = "disconnected" THEN "canvas"
                                                     ELSE "text"]>>

(***************************************************************************)
(* PluginCore.handleConnectionChange (synchronous part)                    *)
(***************************************************************************)
\* the widgets of a set in the order in which reinitializeAllKeys visits
\* them: the keys array of a device in the order of its uids
RECURSIVE KeysInOrder(_)
KeysInOrder(K) ==
  IF K = {} THEN <<>>
  ELSE LET k == CHOOSE x \in K : \A y \in K : x[2] <= y[2]
       IN <<k>> \o KeysInOrder(K \ {k})

\* reinitializeAllKeys up to its first await: a run over the registered
\* widgets starts (nothing is left to do when there is none)
ReinitializeAllKeys(runs, rk) ==
  IF rk = {} THEN runs ELSE Append(runs, KeysInOrder(rk))

ConnectionStateName(connected) ==
  IF connected THEN "connected" ELSE "disconnected"

HandleConnectionChange_ConnectedOnly(connected) ==
  LET newState == ConnectionStateName(connected) IN
  IF currentConnectionState # newState /\ connected
    THEN /\ currentConnectionState' = newState
         /\ coreParity' = ~coreParity
         /\ passes' = passes
         /\ reinit' = ReinitializeAllKeys(reinit, registeredKeys)
    ELSE UNCHANGED <<currentConnectionState, coreParity, passes, reinit>>

HandleConnectionChange(connected) ==
  LET newState == ConnectionStateName(connected) IN
  IF currentConnectionState # newState
    THEN /\ currentConnectionState' = newState
         /\ coreParity' = ~coreParity
         /\ IF connected
               THEN /\ passes' = passes
                    /\ reinit' = ReinitializeAllKeys(reinit, registeredKeys)
               ELSE /\ passes' = RenderConnectionState(passes, newState,
                                                       activeKeys, keyOrder)
                    /\ reinit' = reinit
    ELSE UNCHANGED <<currentConnectionState, coreParity, passes, reinit>>

\* no connectionChanged listener runs in this step
NoHandler == UNCHANGED <<currentConnectionState, coreParity, passes, reinit>>

(***************************************************************************)
(* LoLDataService.setConnectionState                                       *)
(***************************************************************************)
SetConnectionState_Always(connected) ==
  /\ isConnected' = connected
  /\ ccParity' = ~ccParity
  /\ ccLast' = <<connected>>
  /\ IF listening THEN HandleConnectionChange(connected) ELSE NoHandler

SetConnectionState(connected) ==
  LET wasConnected == isConnected IN
  /\ isConnected' = connected
  /\ IF wasConnected # connected
        THEN /\ ccParity' = ~ccParity
             /\ ccLast' = <<connected>>
             /\ IF listening THEN HandleConnectionChange(connected)
                              ELSE NoHandler
        ELSE /\ UNCHANGED <<ccParity, ccLast>>
             /\ NoHandler

\* a step that does not call setConnectionState
NoConnCall ==
  /\ UNCHANGED <<isConnected, ccParity, ccLast>>
  /\ NoHandler

(***************************************************************************)
(* Live-game keys: isInActiveGame, handleLiveGameUpdate, the update timer  *)
(***************************************************************************)
\* the one live widget that the model follows
LiveWidgets == {"teamkills"}

\* the live-game module as a handler finds it, and what the handler has
\* done so far: the render of the live widget, and whether
\* updateAllLiveGameKeysToNotInGame was called
LiveState == [timer |-> liveGameUpdateTimer, intervals |-> liveIntervals,
              cache |-> cachedGameState,
              stamp |-> lastGameStateCheck, calls |-> liveCalls,
              render |-> "none", broadcast |-> FALSE]

\* the cached answer is used
Fresh(L) == L.cache # "null" /\ now - L.stamp < gameStateCacheAge

\* isInActiveGame up to its await on client.get: the cached answer, the
\* answer of the catch block when there is no client handle, or "get"
IsInActiveGame(L) ==
  IF Fresh(L) THEN L.cache
  ELSE IF ~axios THEN (IF L.cache # "null" THEN L.cache ELSE "false")
  ELSE "get"

\* the caller waits for client.get; `now` was read before the await
Awaiting(L, caller, phase) ==
  [L EXCEPT !.calls = Append(@, [caller |-> caller, at |-> now,
                                 phase |-> phase])]

\* startLiveGameUpdateTimer without its test of the handle
StartLiveGameUpdateTimer_Unguarded(L) ==
  [L EXCEPT !.timer = TRUE, !.intervals = @ + 1]

\* startLiveGameUpdateTimer: nothing when the handle is set, otherwise
\* setInterval and the handle is kept
StartLiveGameUpdateTimer(L) ==
  IF L.timer THEN L
  ELSE [L EXCEPT !.timer = TRUE, !.intervals = @ + 1]

\* stopLiveGameUpdateTimer: clearInterval of the handle
StopLiveGameUpdateTimer(L) ==
  IF L.timer THEN [L EXCEPT !.timer = FALSE, !.intervals = @ - 1]
  ELSE L

\* initializeTeamKillsKey after isInActiveGame has answered: the widget is
\* drawn and, in an active game, the timer is started
Rendered(L, inActiveGame) ==
  IF inActiveGame = "true"
    THEN StartLiveGameUpdateTimer([L EXCEPT !.render = "live"])
    ELSE [L EXCEPT !.render = "notInGame"]

\* initializeTeamKillsKey
InitializeLiveKeyCall(L) ==
  LET a == IsInActiveGame(L)
  IN IF a = "get" THEN Awaiting(L, "init", "") ELSE Rendered(L, a)

\* updateAllLiveGameKeysToNotInGame
UpdateAllLiveGameKeysToNotInGame(L) ==
  LET B == [L EXCEPT !.broadcast = TRUE]
  IN IF liveKeys = {} THEN B ELSE InitializeLiveKeyCall(B)

\* handleLiveGameUpdate after isInActiveGame has answered
HandleLiveGameUpdate(L, inActiveGame) ==
  IF inActiveGame = "true"
    THEN StartLiveGameUpdateTimer(L)
    ELSE UpdateAllLiveGameKeysToNotInGame(
           [StopLiveGameUpdateTimer(L) EXCEPT !.cache = "null", !.stamp = 0])

\* the interval callback of startLiveGameUpdateTimer after isInActiveGame
\* has answered
TimerCallback(L, inActiveGame) ==
  IF inActiveGame = "true"
    THEN L
    ELSE UpdateAllLiveGameKeysToNotInGame(StopLiveGameUpdateTimer(L))

Continue(L, caller, a) ==
  CASE caller = "update" -> HandleLiveGameUpdate(L, a)
    [] caller = "tick" -> TimerCallback(L, a)
    [] OTHER -> Rendered(L, a)

\* a caller of isInActiveGame up to its first wait for the client
Ask(L, caller, phase) ==
  LET a == IsInActiveGame(L)
  IN IF a = "get" THEN Awaiting(L, caller, phase) ELSE Continue(L, caller, a)

NoHop == [op |-> "none"]

Apply(L, op) ==
  /\ Len(L.calls) <= MaxLiveCalls
  /\ liveGameUpdateTimer' = L.timer
  /\ liveIntervals' = L.intervals
  /\ cachedGameState' = L.cache
  /\ lastGameStateCheck' = L.stamp
  /\ liveCalls' = L.calls
  /\ hop' = [op EXCEPT !.render = L.render, !.broadcast = L.broadcast]

Did(op, caller, phase, answer, cached) ==
  [op |-> op, caller |-> caller, phase |-> phase, answer |-> answer,
   cached |-> cached, render |-> "none", broadcast |-> FALSE]

\* The listeners of a changed game phase.  handleEndpointPoll emits
\* dataUpdated, which reaches KeyHandlers.handleGameStateChange through
\* handleGameflowData with currentGamePhase as the previous phase (it is
\* the phase of the previous poll: every poll passes through here), and
\* then gameStateChanged, which reaches it through
\* PluginCore.handleGameStateChange: handleLiveGameUpdate is called twice,
\* each call running up to its first wait for the client.
GameStateListener(phase, previous) ==
  LET inGame == phase = "InProgress" IN
  /\ isInGame' = inGame
  /\ UNCHANGED liveKeys
  /\ IF (inGame /\ previous # "InProgress") \/
        (~inGame /\ previous = "InProgress")
       THEN Apply(Ask(Ask(LiveState, "update", phase), "update", phase),
                  Did("asked", "update", phase, IsInActiveGame(LiveState),
                      Fresh(LiveState)))
       ELSE /\ hop' = NoHop
            /\ UNCHANGED <<liveGameUpdateTimer, liveIntervals,
                           cachedGameState, lastGameStateCheck, liveCalls>>

\* no gameStateChanged listener of the key handlers runs in this step
NoListener == UNCHANGED handlerVars

\* handlePluginAlive reaches initializeKey for the live widget: the widget
\* is recorded, then its initializer runs or the offline state is shown
InitializeLiveKey(w) ==
  /\ liveKeys' = liveKeys \cup {w}
  /\ IF currentConnectionState = "connected"
       THEN Apply(InitializeLiveKeyCall(LiveState),
                  Did("asked", "init", "", IsInActiveGame(LiveState),
                      Fresh(LiveState)))
       ELSE /\ hop' = [Did("offline", "init", "", "none", FALSE)
                         EXCEPT !.render = "offline"]
            /\ UNCHANGED <<liveGameUpdateTimer, liveIntervals,
                           cachedGameState, lastGameStateCheck, liveCalls>>
  /\ UNCHANGED <<lolVars, connVars, keyVars, scope, store, isInGame,
                 registeredKeys, rankVars>>

\* the 3 s interval fires
LiveTimerTick ==
  /\ liveIntervals > 0
  /\ Apply(Ask(LiveState, "tick", ""),
           Did("asked", "tick", "", IsInActiveGame(LiveState),
               Fresh(LiveState)))
  /\ UNCHANGED <<lolVars, connVars, keyVars, scope, store, isInGame,
                 liveKeys, registeredKeys, rankVars>>

Dropped(L, i) ==
  [L EXCEPT !.calls = SubSeq(@, 1, i - 1) \o SubSeq(@, i + 1, Len(@))]

\* client.get of isInActiveGame returns the phase: the answer is cached
\* with the time read before the request, and the caller goes on
LiveCallDone(i, gameFlow) ==
  /\ i \in 1..Len(liveCalls)
  /\ leagueRunning /\ isConnected
  /\ LET c == liveCalls[i]
         a == IF gameFlow = "InProgress" THEN "true" ELSE "false"
         L == [Dropped(LiveState, i) EXCEPT !.cache = a, !.stamp = c.at]
     IN Apply(Continue(L, c.caller, a),
              Did("answered", c.caller, c.phase, a, FALSE))
  /\ UNCHANGED <<lolVars, connVars, keyVars, scope, store, isInGame,
                 liveKeys, registeredKeys, rankVars>>

\* client.get of isInActiveGame throws: the catch block answers with the
\* cached value, whatever its age, or false
LiveCallFailed(i) ==
  /\ i \in 1..Len(liveCalls)
  /\ LET c == liveCalls[i]
         a == IF cachedGameState # "null" THEN cachedGameState ELSE "false"
     IN Apply(Continue(Dropped(LiveState, i), c.caller, a),
              Did("answered", c.caller, c.phase, a, FALSE))
  /\ UNCHANGED <<lolVars, connVars, keyVars, scope, store, isInGame,
                 liveKeys, registeredKeys, rankVars>>

(***************************************************************************)
(* LoLDataService: polling                                                 *)
(***************************************************************************)
\* startEndpointPolling: one new interval per endpoint, stored in the map
\* (the previous handle, if any, is overwritten without clearInterval)
StartedTimers(timers, pollers) ==
  [e \in Endpoints |-> timers[e] + 1]

\* the immediate handleEndpointPoll of startEndpointPolling: the request
\* goes out only when a client handle exists (isConnected was just set)
ImmediatePolls(inflight, haveAxios) ==
  [e \in Endpoints |->
     IF haveAxios /\ inflight[e] = 0 THEN inflight[e] + 1
                                                    ELSE inflight[e]]

\* stopEndpointPolling: clearInterval on every handle of the map
StoppedTimers(timers, pollers) ==
  [e \in Endpoints |-> IF pollers[e] THEN timers[e] - 1 ELSE timers[e]]

NoPollers == [e \in Endpoints |-> FALSE]
AllPollers == [e \in Endpoints |-> TRUE]

\* a step that applies no gameflow response
NoGsEvent == UNCHANGED <<gsLog, pollHist, lastKnownGameState>>

\* observation of the first histCap responses
Recorded(log, x) == IF Len(pollHist) < histCap THEN Append(log, x) ELSE log

\* handleGameStateChange
GameStateDiffers_Known(currentState, previousState) ==
  currentState # previousState /\ previousState # Undefined

GameStateDiffers(currentState, previousState) ==
  currentState # previousState

HandleGameStateChange_Unguarded(currentState, previousState) ==
  /\ lastKnownGameState' = currentState
  /\ gsLog' = Recorded(gsLog, [phase |-> currentState,
                               previous |-> previousState])

HandleGameStateChange(currentState, previousState) ==
  IF GameStateDiffers(currentState, previousState)
    THEN /\ lastKnownGameState' = currentState
         /\ gsLog' = Recorded(gsLog, [phase |-> currentState,
                                      previous |-> previousState])
    ELSE UNCHANGED <<gsLog, lastKnownGameState>>

\* an interval fires: handleEndpointPoll up to its await
PollTick(e) ==
  /\ Quiet /\ UNCHANGED attemptsStarted
  /\ intervalTimers[e] > 0
  /\ isConnected /\ axios
  /\ pollsInFlight[e] = 0
  /\ pollsInFlight' = BagAdd(pollsInFlight, e)
  /\ NoConnCall /\ NoGsEvent
  /\ UNCHANGED <<isInitialized, connectionAttempts, axios, processMonitor,
                 endpointPollers, dataCache, leagueRunning, intervalTimers,
                 attempts, checksInFlight, reconnectTimers, listening, keyRest, aside, store>>

\* the request succeeds: handleEndpointPoll after its await
PollSuccess(e, data) ==
  /\ lop' = Observed([op |-> "pollSuccess", endpoint |-> e,
                       dataUpdated |-> TRUE, error |-> FALSE])
  /\ UNCHANGED attemptsStarted
  /\ pollsInFlight[e] > 0
  /\ leagueRunning
  /\ data \in (IF e = "gameflow" THEN Phases ELSE {OtherData})
  /\ pollsInFlight' = BagDel(pollsInFlight, e)
  /\ LET previousData == dataCache[e] IN
       /\ dataCache' = [dataCache EXCEPT ![e] = data]
       /\ IF e = "gameflow"
            THEN /\ HandleGameStateChange(data, previousData)
                 /\ pollHist' = Recorded(pollHist, data)
            ELSE NoGsEvent
       /\ IF /\ e = "gameflow" /\ GameStateDiffers(data, previousData)
             /\ listening /\ lolScope.live
             \* keyHandlers is null once PluginCore.shutdown has begun
             /\ autoSaveTimer
            THEN GameStateListener(data, previousData)
            ELSE NoListener
  /\ NoConnCall
  /\ UNCHANGED <<isInitialized, connectionAttempts, axios, processMonitor,
                 endpointPollers, leagueRunning, intervalTimers,
                 attempts, checksInFlight, reconnectTimers, listening, keyRest, scope,
                 registeredKeys, rankVars, store>>

\* the request fails: nothing but an 'error' event (unless suppressed)
PollFailure_Loud(e) ==
  /\ lop' = Observed([op |-> "pollFailure", endpoint |-> e,
                       dataUpdated |-> FALSE,
                       error |-> TRUE])
  /\ UNCHANGED attemptsStarted
  /\ pollsInFlight[e] > 0
  /\ pollsInFlight' = BagDel(pollsInFlight, e)
  /\ NoConnCall /\ NoGsEvent
  /\ UNCHANGED <<isInitialized, connectionAttempts, axios, processMonitor,
                 endpointPollers, dataCache, leagueRunning, intervalTimers,
                 attempts, checksInFlight, reconnectTimers, listening, keyRest, aside, store>>

\* the request fails: nothing but an 'error' event (unless suppressed)
PollFailure(e) ==
  /\ lop' = Observed([op |-> "pollFailure", endpoint |-> e,
                       dataUpdated |-> FALSE,
                       error |-> ~suppressErrors[e]])
  /\ UNCHANGED attemptsStarted
  /\ pollsInFlight[e] > 0
  /\ pollsInFlight' = BagDel(pollsInFlight, e)
  /\ NoConnCall /\ NoGsEvent
  /\ UNCHANGED <<isInitialized, connectionAttempts, axios, processMonitor,
                 endpointPollers, dataCache, leagueRunning, intervalTimers,
                 attempts, checksInFlight, reconnectTimers, listening, keyRest, aside, store>>

(***************************************************************************)
(* LoLDataService: connection attempts                                     *)
(***************************************************************************)
\* handleReconnection up to its first await, as a function of the counter
ReconnCount(ca) == IF ca >= maxReconnectAttempts THEN ca ELSE ca + 1

ReconnBag(bag, ca) ==
  IF ca >= maxReconnectAttempts THEN bag
  ELSE IF ca + 1 > 1 THEN BagAdd(bag, <<"reconnect", "delay">>)
       ELSE BagAdd(bag, <<"reconnect", "discover">>)

\* attemptConnection calls since the last reset, where they are counted
Started(n) == IF lolScope.starts THEN n ELSE 0
\* handleReconnection calls attemptConnection in the same step only when
\* it needs no delay
ReconnStarts(n, ca) ==
  IF ca < maxReconnectAttempts /\ ca + 1 = 1 THEN Started(n + 1)
                                              ELSE Started(n)

\* room for the attempt that handleReconnection would start
ReconnRoom(ca) ==
  ca >= maxReconnectAttempts \/ AttemptsInFlight < attemptCap

\* initialize(): startProcessMonitoring, then attemptConnection
Initialize ==
  /\ Quiet /\ UNCHANGED attemptsStarted
  /\ ~isInitialized /\ ~processMonitor /\ listening
  /\ AttemptsInFlight < attemptCap
  /\ processMonitor' = TRUE
  /\ attempts' = BagAdd(attempts, <<"init", "discover">>)
  /\ NoConnCall /\ NoGsEvent
  /\ UNCHANGED <<isInitialized, connectionAttempts, axios, endpointPollers,
                 dataCache, leagueRunning, intervalTimers, pollsInFlight,
                 checksInFlight, reconnectTimers, listening, keyRest, aside, store>>

\* the catch block of attemptConnection and of its caller
AttemptFailed(caller, stage) ==
  /\ Quiet /\ UNCHANGED attemptsStarted
  /\ SetConnectionState(FALSE)
  /\ attempts' = BagDel(attempts, <<caller, stage>>)
  /\ IF caller = "init"
        THEN isInitialized' = TRUE /\ UNCHANGED reconnectTimers
        ELSE /\ UNCHANGED isInitialized
             /\ IF connectionAttempts < maxReconnectAttempts
                   THEN /\ reconnectTimers = 0
                        /\ reconnectTimers' = reconnectTimers + 1
                   ELSE UNCHANGED reconnectTimers
  /\ NoGsEvent
  /\ UNCHANGED <<connectionAttempts, axios, processMonitor, endpointPollers,
                 dataCache, leagueRunning, intervalTimers, pollsInFlight,
                 checksInFlight, listening, keyRest, aside, store>>

\* discoverConnection returns; setupAxiosClient builds the client and
\* validateConnection sends its request
DiscoverDone(caller) ==
  /\ attempts[<<caller, "discover">>] > 0
  /\ \/ /\ attempts' = BagAdd(BagDel(attempts, <<caller, "discover">>),
                               <<caller, "validate">>)
        /\ axios' = TRUE
        /\ Quiet /\ UNCHANGED attemptsStarted
        /\ NoConnCall /\ NoGsEvent
        /\ UNCHANGED <<isInitialized, connectionAttempts, processMonitor,
                       endpointPollers, dataCache, leagueRunning,
                       intervalTimers, pollsInFlight, checksInFlight,
                       reconnectTimers, listening, keyRest, aside, store>>
     \/ AttemptFailed(caller, "discover")

\* validateConnection (and getLatestVersion) return
ValidateDone(caller) ==
  /\ attempts[<<caller, "validate">>] > 0
  /\ \/ /\ leagueRunning
        /\ SetConnectionState(TRUE)
        /\ intervalTimers' = StartedTimers(intervalTimers, endpointPollers)
        /\ \A e \in Endpoints : intervalTimers'[e] <= MaxTimers
        /\ endpointPollers' = AllPollers
        /\ pollsInFlight' = ImmediatePolls(pollsInFlight, axios)
        /\ connectionAttempts' = 0
        /\ Quiet /\ attemptsStarted' = 0
        /\ attempts' = BagDel(attempts, <<caller, "validate">>)
        /\ isInitialized' = (isInitialized \/ caller = "init")
        /\ NoGsEvent
        /\ UNCHANGED <<axios, processMonitor, dataCache, leagueRunning,
                       checksInFlight, reconnectTimers, listening, keyRest, aside, store>>
     \/ AttemptFailed(caller, "validate")

\* the delay of handleReconnection elapses: attemptConnection starts
ReconnectDelayDone ==
  /\ Quiet
  /\ attemptsStarted' = Started(attemptsStarted + 1)
  /\ attempts[<<"reconnect", "delay">>] > 0
  /\ attempts' = BagAdd(BagDel(attempts, <<"reconnect", "delay">>),
                        <<"reconnect", "discover">>)
  /\ NoConnCall /\ NoGsEvent
  /\ UNCHANGED <<isInitialized, connectionAttempts, axios, processMonitor,
                 endpointPollers, dataCache, leagueRunning, intervalTimers,
                 pollsInFlight, checksInFlight, reconnectTimers, listening,
                 keyRest, aside, store>>

\* setTimeout(() => this.handleReconnection(), reconnectDelay) fires
ReconnectTimerFire ==
  /\ Quiet
  /\ attemptsStarted' = ReconnStarts(attemptsStarted, connectionAttempts)
  /\ reconnectTimers > 0
  /\ ReconnRoom(connectionAttempts)
  /\ reconnectTimers' = reconnectTimers - 1
  /\ connectionAttempts' = ReconnCount(connectionAttempts)
  /\ attempts' = ReconnBag(attempts, connectionAttempts)
  /\ NoConnCall /\ NoGsEvent
  /\ UNCHANGED <<isInitialized, axios, processMonitor, endpointPollers,
                 dataCache, leagueRunning, intervalTimers, pollsInFlight,
                 checksInFlight, listening, keyRest, aside, store>>

(***************************************************************************)
(* LoLDataService: process monitor, disconnection, forced reconnect        *)
(***************************************************************************)
\* the client process starts or stops
EnvToggle ==
  /\ Quiet /\ UNCHANGED attemptsStarted
  /\ leagueRunning' = ~leagueRunning
  /\ NoConnCall /\ NoGsEvent
  /\ UNCHANGED <<isInitialized, connectionAttempts, axios, processMonitor,
                 endpointPollers, dataCache, intervalTimers, pollsInFlight,
                 attempts, checksInFlight, reconnectTimers, listening,
                 keyRest, aside, store>>

\* the process monitor interval fires: isLeagueProcessRunning is started
ProcessCheckTick ==
  /\ Quiet /\ UNCHANGED attemptsStarted
  /\ processMonitor
  /\ ChecksInFlight = 0
  /\ checksInFlight' = BagAdd(checksInFlight, leagueRunning)
  /\ NoConnCall /\ NoGsEvent
  /\ UNCHANGED <<isInitialized, connectionAttempts, axios, processMonitor,
                 endpointPollers, dataCache, leagueRunning, intervalTimers,
                 pollsInFlight, attempts, reconnectTimers, listening,
                 keyRest, aside, store>>

\* handleDisconnection: setConnectionState, stopEndpointPolling,
\* resetConnectionDetails
HandleDisconnection ==
  /\ SetConnectionState(FALSE)
  /\ intervalTimers' = StoppedTimers(intervalTimers, endpointPollers)
  /\ endpointPollers' = NoPollers
  /\ axios' = FALSE

\* handleProcessCheck after its await
ProcessCheckDone(isRunning) ==
  /\ Quiet
  /\ attemptsStarted' =
       IF isRunning /\ ~isConnected
         THEN ReconnStarts(attemptsStarted, connectionAttempts)
         ELSE attemptsStarted
  /\ checksInFlight[isRunning] > 0
  /\ checksInFlight' = BagDel(checksInFlight, isRunning)
  /\ NoGsEvent
  /\ IF isRunning /\ ~isConnected
        THEN /\ ReconnRoom(connectionAttempts)
             /\ connectionAttempts' = ReconnCount(connectionAttempts)
             /\ attempts' = ReconnBag(attempts, connectionAttempts)
             /\ NoConnCall
             /\ UNCHANGED <<axios, endpointPollers, intervalTimers>>
        ELSE IF ~isRunning /\ isConnected
        THEN /\ HandleDisconnection
             /\ UNCHANGED <<connectionAttempts, attempts>>
        ELSE /\ NoConnCall
             /\ UNCHANGED <<connectionAttempts, attempts, axios,
                            endpointPollers, intervalTimers>>
  /\ UNCHANGED <<isInitialized, processMonitor, dataCache, leagueRunning,
                 pollsInFlight, reconnectTimers, listening, keyRest, aside, store>>

\* forceReconnect
ForceReconnect ==
  /\ Quiet
  /\ attemptsStarted' = ReconnStarts(0, 0)
  /\ listening
  /\ AttemptsInFlight < attemptCap
  /\ IF isConnected
        THEN HandleDisconnection
        ELSE NoConnCall /\ UNCHANGED <<axios, endpointPollers, intervalTimers>>
  /\ connectionAttempts' = ReconnCount(0)
  /\ attempts' = ReconnBag(attempts, 0)
  /\ NoGsEvent
  /\ UNCHANGED <<isInitialized, processMonitor, dataCache, leagueRunning,
                 pollsInFlight, checksInFlight, reconnectTimers, listening,
                 keyRest, aside, store>>

\* shutdown: everything is synchronous; the listeners are removed last
Shutdown ==
  /\ Quiet /\ UNCHANGED attemptsStarted
  /\ listening
  /\ processMonitor' = FALSE
  /\ intervalTimers' = StoppedTimers(intervalTimers, endpointPollers)
  /\ endpointPollers' = NoPollers
  /\ dataCache' = [e \in Endpoints |-> Undefined]
  /\ SetConnectionState(FALSE)
  /\ axios' = FALSE
  /\ isInitialized' = FALSE
  /\ listening' = FALSE
  /\ gsLog' = <<>> /\ pollHist' = <<>>
  /\ UNCHANGED <<connectionAttempts, lastKnownGameState, leagueRunning,
                 pollsInFlight, attempts, checksInFlight, reconnectTimers,
                 keyRest, aside, store>>

(***************************************************************************)
(* KeyService: devices and registration                                    *)
(***************************************************************************)
lolFrame == <<lolVars, connVars, aside, store>>

KeysOf(D) == {k \in KeyIds : k[1] \in D}
\* PluginCore.registeredKeys is followed where re-initialisation is
Cached(K) == IF keyScope.reinit THEN K ELSE {}
Registered(ak) == {k \in KeyIds : ak[k] # "none"}

\* Date.now() advances
Tick ==
  /\ now < horizon
  /\ now' = now + 1
  /\ kop' = NoOp
  /\ UNCHANGED <<lolFrame, passes, horizon, connectedDevices, activeKeys,
                 keyOrder, renderQueue, lastRenderTime, errorCounts,
                 keyStates, isDirty, tasks, retryTimers, lastGood, fails>>

\* removeKey for every key of K (all of them registered)
RemoveKeys_KeepStamp(K) ==
  /\ tasks' = TasksAfterRemoval(tasks, renderQueue, K)
  /\ renderQueue' = Without(renderQueue, K, 0)
  /\ activeKeys' = Without(activeKeys, K, "none")
  /\ keyOrder' = OrderAfterRemoval(keyOrder, K)
  /\ lastRenderTime' = lastRenderTime
  /\ errorCounts' = Without(errorCounts, K, 0)
  /\ passes' = PassesAfterRemoval(passes, keyOrder, K)
  /\ lastGood' = Without(lastGood, K, NoTime)
  /\ fails' = Without(fails, K, 0)

RemoveKeys(K) ==
  /\ tasks' = TasksAfterRemoval(tasks, renderQueue, K)
  /\ renderQueue' = Without(renderQueue, K, 0)
  /\ activeKeys' = Without(activeKeys, K, "none")
  /\ keyOrder' = OrderAfterRemoval(keyOrder, K)
  /\ lastRenderTime' = Without(lastRenderTime, K, NoTime)
  /\ errorCounts' = Without(errorCounts, K, 0)
  /\ passes' = PassesAfterRemoval(passes, keyOrder, K)
  /\ lastGood' = Without(lastGood, K, NoTime)
  /\ fails' = Without(fails, K, 0)

HandleDeviceStatus_KeepKeys(devices) ==
  LET gone == connectedDevices \ devices
      K == {}
  IN /\ RemoveKeys(K)
     /\ connectedDevices' = devices
     /\ kop' = [op |-> "deviceStatus", devices |-> devices,
                was |-> connectedDevices, removed |-> K,
                disconnected |-> [d \in Devices |->
                                    IF d \in gone THEN 1 ELSE 0]]
     /\ registeredKeys' = registeredKeys \ KeysOf(gone)
     /\ UNCHANGED <<lolVars, connVars, scope, handlerVars, rankVars, store, now,
                    horizon, keyStates, isDirty, retryTimers>>

\* handleDeviceStatus(devices): every connected device that the report
\* omits goes through handleDeviceDisconnection (its registered keys are
\* removed, deviceDisconnected is emitted).  The deviceConnected listener
\* of PluginCore finds no cached keys for a device that was not connected
\* (its cache entry is dropped on deviceDisconnected), so it does nothing.
HandleDeviceStatus(devices) ==
  LET gone == connectedDevices \ devices
      K == KeysOf(gone) \cap Registered(activeKeys)
  IN /\ RemoveKeys(K)
     /\ connectedDevices' = devices
     /\ kop' = [op |-> "deviceStatus", devices |-> devices,
                was |-> connectedDevices, removed |-> K,
                disconnected |-> [d \in Devices |->
                                    IF d \in gone THEN 1 ELSE 0]]
     /\ registeredKeys' = registeredKeys \ KeysOf(gone)
     /\ UNCHANGED <<lolVars, connVars, scope, handlerVars, rankVars, store, now,
                    horizon, keyStates, isDirty, retryTimers>>

RECURSIVE AppendNew(_, _, _)
AppendNew(order, d, U) ==
  IF U = {} THEN order
  ELSE LET u == CHOOSE x \in U : \A y \in U : x <= y
           o1 == IF \E i \in 1..Len(order) : order[i] = <<d, u>>
                   THEN order ELSE Append(order, <<d, u>>)
       IN AppendNew(o1, d, U \ {u})

\* PluginCore.handlePluginAlive up to its first await: registerKeys marks
\* the device connected and stores a new 'inactive' object for every key.
\* For a device that was not connected, the deviceConnected listener
\* (handleDeviceConnection) registers the same keys again and starts a
\* pass for the current connection state.
PluginAlive(serialNumber, U) ==
  LET K == {<<serialNumber, u>> : u \in U}
      ak == [k \in KeyIds |-> IF k \in K THEN "inactive" ELSE activeKeys[k]]
      order == AppendNew(keyOrder, serialNumber, U)
      ps == PassesAfterRegister(passes, K)
  IN /\ U # {}
     /\ connectedDevices' = connectedDevices \cup {serialNumber}
     /\ activeKeys' = ak
     /\ keyOrder' = order
     /\ tasks' = TasksAfterRegister(tasks, K)
     /\ passes' = IF serialNumber \in connectedDevices THEN ps
                  ELSE RenderConnectionState(ps, currentConnectionState,
                                             ak, order)
     /\ Len(passes') <= MaxPasses
     /\ kop' = [op |-> "registerKeys", keys |-> K]
     /\ registeredKeys' = Cached((registeredKeys \ KeysOf({serialNumber}))
                                   \cup K)
     /\ UNCHANGED <<lolVars, connVars, scope, handlerVars, rankVars, store,
                    now, horizon, renderQueue, lastRenderTime,
                    errorCounts, keyStates, isDirty, retryTimers, lastGood, fails>>

\* performCleanup
PerformCleanup ==
  LET K == {k \in KeyIds : activeKeys[k] \in {"dead", "failed"}}
      left == Registered(activeKeys) \ K
  IN /\ tasks' = TasksAfterRemoval(tasks, renderQueue, K)
     /\ renderQueue' = Without(renderQueue, K, 0)
     /\ activeKeys' = Without(activeKeys, K, "none")
     /\ keyOrder' = OrderAfterRemoval(keyOrder, K)
     /\ passes' = PassesAfterRemoval(passes, keyOrder, K)
     /\ lastGood' = Without(lastGood, K, NoTime)
     /\ fails' = Without(fails, K, 0)
     /\ lastRenderTime' =
          [k \in KeyIds |->
             IF k \notin left \/ (lastRenderTime[k] # NoTime /\
                                  now - lastRenderTime[k] > staleRenderAge)
               THEN NoTime ELSE lastRenderTime[k]]
     /\ errorCounts' = [k \in KeyIds |->
                          IF k \notin left THEN 0 ELSE errorCounts[k]]
     /\ kop' = [op |-> "cleanup", removed |-> K]
     /\ UNCHANGED <<lolFrame, now, horizon, connectedDevices, keyStates, isDirty,
                    retryTimers>>

(***************************************************************************)
(* KeyService: updateKey, render timers, retries                           *)
(***************************************************************************)
\* updateKey(serialNumber, keyUid, data) up to its await on plugin.draw
UpdateKeyCall(k, data, caller) ==
  IF k[1] \notin connectedDevices \/ activeKeys[k] = "none"
    THEN /\ kop' = [op |-> caller, key |-> k, payload |-> data,
                    result |-> "rejected"]
         /\ UNCHANGED <<keyStates, isDirty, tasks, renderQueue, lastRenderTime>>
  ELSE IF IsThrottled(lastRenderTime, k)
    THEN /\ kop' = [op |-> caller, key |-> k, payload |-> data,
                    result |-> "throttled"]
         /\ UNCHANGED <<keyStates, isDirty, tasks, renderQueue, lastRenderTime>>
  ELSE /\ HasRoom(tasks, renderQueue, k)
       /\ keyStates' = [keyStates EXCEPT ![k[2]] = data]
       /\ isDirty' = TRUE
       /\ LET q == QueueRender(tasks, renderQueue, lastRenderTime, k, data,
                               "update")
          IN /\ tasks' = q.tasks
             /\ renderQueue' = q.renderQueue
             /\ lastRenderTime' = q.lastRenderTime
       /\ kop' = [op |-> caller, key |-> k, payload |-> data,
                  result |-> "drawing"]

\* a key handler calls updateKey for a registered key of a connected device
UpdateKey(k, data) ==
  /\ k[1] \in connectedDevices /\ activeKeys[k] # "none"
  /\ UpdateKeyCall(k, data, "updateKey")
  /\ UNCHANGED <<lolFrame, passes, now, horizon, connectedDevices,
                 activeKeys, keyOrder, errorCounts, retryTimers, lastGood,
                 fails>>

RemoveAt(seq, j) ==
  [i \in 1..(Len(seq) - 1) |-> IF i < j THEN seq[i] ELSE seq[i + 1]]

\* a run of reinitializeAllKeys goes on: initializeKey(serialNumber, key,
\* true) has the initializer of the widget draw through the key manager
\* adapter, which calls updateKey and does not look at what it returns
ReinitStep(j, data) ==
  /\ j \in 1..Len(reinit)
  /\ UpdateKeyCall(Head(reinit[j]), data, "reinit")
  /\ reinit' = IF Tail(reinit[j]) = <<>>
                 THEN RemoveAt(reinit, j)
                 ELSE [reinit EXCEPT ![j] = Tail(@)]
  /\ UNCHANGED <<lolVars, ccParity, ccLast, currentConnectionState,
                 coreParity, aside, store, passes, now, horizon,
                 connectedDevices, activeKeys, keyOrder, errorCounts,
                 retryTimers, lastGood, fails>>

\* the retry timer of handleKeyError fires: updateKey with the cached state
RetryFire(k, j) ==
  /\ j \in 1..Len(retryTimers[k])
  /\ retryTimers[k][j] <= now
  /\ retryTimers' = [retryTimers EXCEPT ![k] = RemoveAt(@, j)]
  /\ IF keyStates[k[2]] # Undefined
       THEN UpdateKeyCall(k, keyStates[k[2]], "retry")
       ELSE /\ kop' = NoOp
            /\ UNCHANGED <<keyStates, isDirty, tasks, renderQueue, lastRenderTime>>
  /\ UNCHANGED <<lolFrame, passes, now, horizon, connectedDevices,
                 activeKeys, keyOrder, errorCounts, lastGood, fails>>

\* a render timer fires (no earlier than due): executeRender starts
TimerFire(i) ==
  /\ tasks[i].st = "timer"
  /\ tasks[i].t <= now
  /\ LET k == tasks[i].key IN
       /\ tasks' = [tasks EXCEPT ![i].st = "draw", ![i].t = now]
       /\ lastRenderTime' = [lastRenderTime EXCEPT ![k] = now]
       /\ renderQueue' = [renderQueue EXCEPT ![k] = IF @ = i THEN Stale
                                                             ELSE @]
       /\ kop' = [op |-> "timerFire", key |-> k]
  /\ UNCHANGED <<lolFrame, passes, now, horizon, connectedDevices,
                 activeKeys, keyOrder, errorCounts, keyStates, isDirty, retryTimers,
                 lastGood, fails>>

(***************************************************************************)
(* KeyService: a draw call returns                                         *)
(***************************************************************************)
ReplacePass(ps, j, new) ==
  SubSeq(ps, 1, j - 1) \o new \o SubSeq(ps, j + 1, Len(ps))

\* the pass that awaits task i
PassOf(i) == CHOOSE j \in 1..Len(passes) : passes[j].task = i

Ended(new) == IF new = <<>> THEN "done" ELSE "no"

\* plugin.draw resolves: executeRender emits keyRendered and its finally
\* block deletes the queue entry of the key; queueRender then stores the
\* finished task in the queue and its caller goes on
DrawOk(i) ==
  LET t == tasks[i]
      k == t.key
      ts0 == [tasks EXCEPT ![i] = FreeTask]
      rq0 == [renderQueue EXCEPT ![k] = 0]
      rq1 == [renderQueue EXCEPT ![k] = Stale]
      obs == [op |-> "drawOk", key |-> k, via |-> t.via,
              orphan |-> t.orphan,
              gap |-> IF lastGood[k] = NoTime THEN throttleInterval
                      ELSE Abs(t.t - lastGood[k])]
  IN /\ t.st = "draw"
     /\ tasks' = ts0
     /\ lastGood' = IF t.orphan \/ ~keyScope.spacing THEN lastGood
                     ELSE [lastGood EXCEPT ![k] = t.t]
     /\ UNCHANGED retryTimers
     /\ CASE t.via = "timer" ->
               /\ renderQueue' = rq0
               /\ kop' = obs @@ [ended |-> "no", missed |-> {}]
               /\ UNCHANGED <<activeKeys, errorCounts, fails, passes>>
          [] t.via = "update" ->
               /\ renderQueue' = rq1
               /\ activeKeys' = IF t.orphan THEN activeKeys
                                ELSE [activeKeys EXCEPT ![k] = "active"]
               /\ errorCounts' = [errorCounts EXCEPT ![k] = 0]
               /\ fails' = [fails EXCEPT ![k] = 0]
               /\ kop' = obs @@ [ended |-> "no", missed |-> {}]
               /\ UNCHANGED passes
          [] t.via \in {"try", "fallback"} ->
               LET j == PassOf(i)
                   new == Advanced(passes[j], activeKeys, keyOrder)
               IN /\ renderQueue' = rq1
                  /\ passes' = ReplacePass(passes, j, new)
                  /\ kop' = obs @@ [ended |-> Ended(new),
                                    missed |-> IF new = <<>>
                                                 THEN passes[j].todo ELSE {}]
                  /\ UNCHANGED <<activeKeys, errorCounts, fails>>

\* handleKeyError(keyId, error): what becomes of the key and of its retry
KeyAfterError(k, kind, errorCount) ==
  IF activeKeys[k] = "none" THEN "none"
  ELSE IF kind = "dead" THEN "dead"
  ELSE IF errorCount <= maxRetries THEN activeKeys[k]
  ELSE "failed"

RetryAfterError_AnyError(k, kind, errorCount) ==
  IF activeKeys[k] # "none" /\ errorCount <= maxRetries
    THEN <<now + retryDelay * errorCount>>
    ELSE <<>>

RetryAfterError(k, kind, errorCount) ==
  IF activeKeys[k] # "none" /\ kind = "transient"
     /\ errorCount <= maxRetries
    THEN <<now + retryDelay * errorCount>>
    ELSE <<>>

\* plugin.draw rejects: executeRender emits keyError, deletes the queue
\* entry and rethrows.  updateKey hands the error to handleKeyError; the
\* try block of the offline pass falls back to the text render; the
\* fallback and the timer callback let the error escape.
DrawFail(i, kind) ==
  LET t == tasks[i]
      k == t.key
      ts0 == [tasks EXCEPT ![i] = FreeTask]
      rq0 == [renderQueue EXCEPT ![k] = 0]
      errorCount == errorCounts[k] + 1
      retry == RetryAfterError(k, kind, errorCount)
      obs == [op |-> "drawFail", key |-> k, via |-> t.via, kind |-> kind,
              registered |-> activeKeys[k] # "none"]
  IN /\ t.st = "draw"
     /\ UNCHANGED lastGood
     /\ CASE t.via = "timer" ->
               /\ tasks' = ts0
               /\ renderQueue' = rq0
               /\ kop' = obs @@ [ended |-> "no", missed |-> {}]
               /\ UNCHANGED <<activeKeys, errorCounts, fails, passes,
                              retryTimers>>
          [] t.via = "update" ->
               /\ errorCounts[k] < MaxErrorCount
               /\ Len(retryTimers[k]) + Len(retry) <= MaxRetryTimers
               /\ tasks' = ts0
               /\ renderQueue' = rq0
               /\ errorCounts' = [errorCounts EXCEPT ![k] = errorCount]
               /\ activeKeys' = [activeKeys EXCEPT
                                   ![k] = KeyAfterError(k, kind, errorCount)]
               /\ retryTimers' = [retryTimers EXCEPT ![k] = @ \o retry]
               /\ fails' = [fails EXCEPT
                              ![k] = IF activeKeys[k] # "none" THEN @ + 1
                                                              ELSE @]
               /\ passes' = IF activeKeys'[k] = activeKeys[k] THEN passes
                            ELSE PassesAfterRegister(passes, {k})
               /\ kop' = obs @@ [ended |-> "no", missed |-> {},
                                 errorCount |-> errorCount,
                                 nth |-> fails'[k], retry |-> retry,
                                 state |-> activeKeys'[k]]
          [] t.via = "try" ->
               LET j == PassOf(i)
                   q == QueueRender(ts0, rq0, lastRenderTime, k, StateText,
                                    "fallback")
                   new == IF q.drawing
                            THEN <<[passes[j] EXCEPT !.task = q.id]>>
                            ELSE Advanced(passes[j], activeKeys, keyOrder)
               IN /\ tasks' = q.tasks
                  /\ renderQueue' = q.renderQueue
                  /\ lastRenderTime' = q.lastRenderTime
                  /\ passes' = ReplacePass(passes, j, new)
                  /\ kop' = obs @@ [ended |-> Ended(new),
                                    missed |-> IF new = <<>>
                                                 THEN passes[j].todo ELSE {}]
                  /\ UNCHANGED <<activeKeys, errorCounts, fails,
                                 retryTimers>>
          [] t.via = "fallback" ->
               LET j == PassOf(i) IN
               /\ tasks' = ts0
               /\ renderQueue' = rq0
               /\ passes' = ReplacePass(passes, j, <<>>)
               /\ kop' = obs @@ [ended |-> "aborted",
                                 missed |-> passes[j].todo]
               /\ UNCHANGED <<activeKeys, errorCounts, fails, retryTimers>>
     /\ IF t.via = "try" THEN TRUE ELSE UNCHANGED lastRenderTime

DrawDone(i, outcome) ==
  /\ IF outcome = "ok"
       THEN DrawOk(i) /\ UNCHANGED lastRenderTime
       ELSE DrawFail(i, outcome)
  /\ UNCHANGED <<lolFrame, now, horizon, connectedDevices, keyOrder,
                 keyStates, isDirty>>

\* the offline canvas of the current key of a pass is ready (image), is
\* null, or its creation threw: the pass queues the render of the key
PassCanvasDone(j, outcome) ==
  LET p == passes[j]
      k == p.cur
      q == QueueRender(tasks, renderQueue, lastRenderTime, k,
                       IF outcome = "image" THEN OfflineImage ELSE StateText,
                       IF outcome = "throw" THEN "fallback" ELSE "try")
      p1 == [p EXCEPT !.todo = @ \ {k}]
      new == IF q.drawing THEN <<[p1 EXCEPT !.st = "draw", !.task = q.id]>>
                          ELSE Advanced(p1, activeKeys, keyOrder)
  IN /\ j \in 1..Len(passes)
     /\ p.st = "canvas"
     /\ HasRoom(tasks, renderQueue, k)
     /\ tasks' = q.tasks
     /\ renderQueue' = q.renderQueue
     /\ lastRenderTime' = q.lastRenderTime
     /\ passes' = ReplacePass(passes, j, new)
     /\ kop' = [op |-> "passQueue", key |-> k, deferred |-> ~q.drawing,
                ended |-> Ended(new),
                missed |-> IF new = <<>> THEN p1.todo ELSE {}]
     /\ UNCHANGED <<lolFrame, now, horizon, connectedDevices, activeKeys,
                    keyOrder, errorCounts, keyStates, isDirty, retryTimers, lastGood,
                    fails>>

\* LoLDataService reports the connection state (setConnectionState called
\* by one of its paths); PluginCore reacts in the same step
ConnectionReport(connected) ==
  /\ SetConnectionState(connected)
  /\ Len(passes') <= MaxPasses
  /\ Len(reinit') <= MaxReinits
  /\ kop' = NoOp
  /\ UNCHANGED <<lolRest, aside, store, now, horizon, connectedDevices, activeKeys,
                 keyOrder, renderQueue, lastRenderTime, errorCounts,
                 keyStates, isDirty, tasks, retryTimers, lastGood, fails>>

(***************************************************************************)
(* StateManager (src/src/services/StateManager.js)                         *)
(*                                                                         *)
(* A Map is a function whose domain is the set of its keys.  A key is a    *)
(* pair <<type, text>>: the number 1 is <<"number", 1>> and the string     *)
(* "1" is <<"string", 1>>.  The values stored are strings, numbers and     *)
(* null, which JSON.stringify and JSON.parse reproduce.                    *)
(***************************************************************************)
\* options.maxCacheAge (constructor argument), instantiated small
maxCacheAge == 2
Services == {"lol"}
PreferenceKeys == {"theme"}
CacheKeys == {"summoner"}
\* the ttl argument of setCache; NullTtl is the default, null
NullTtl == NoTime
Ttls == {NullTtl, 1, maxCacheAge + 1}
\* `ttl ? a : b` takes the first branch for a ttl other than null and 0
Truthy(ttl) == ttl # NullTtl /\ ttl # 0
\* expiry: null
NoExpiry == NoTime

EmptyMap == <<>>
MapSet(m, k, v) == [x \in DOMAIN m \cup {k} |-> IF x = k THEN v ELSE m[x]]
\* String(key): the property name that a Map key becomes in an object
String(k) == <<"string", k[2]>>
\* Object.fromEntries(map); no two keys of one Map have the same text
ObjectFromEntries(m) ==
  [p \in {String(k) : k \in DOMAIN m} |->
     m[CHOOSE k \in DOMAIN m : String(k) = p]]
\* new Map(Object.entries(object)): the keys are the property names
MapOfEntries(o) == [p \in DOMAIN o |-> o[p]]

\* the key under which KeyService files the state of widget uid u
KeyUid(u) == <<uidType, u>>
\* state.keys as a Map
KeysMap(ks) ==
  [k \in {KeyUid(u) : u \in {x \in Uids : ks[x] # Undefined}} |-> ks[k[2]]]

\* a saveState call: free slot
NoSave == [stage |-> "free", caller |-> "", doc |-> <<>>, on |-> "",
           over |-> FALSE]

NoFile == [exists |-> FALSE, keys |-> EmptyMap, connections |-> EmptyMap,
           preferences |-> EmptyMap, cache |-> EmptyMap, lastSave |-> NoTime]
NoMaps == [keys |-> EmptyMap, connections |-> EmptyMap,
           preferences |-> EmptyMap, cache |-> EmptyMap]
NotLoaded == [loaded |-> FALSE, keys |-> EmptyMap, connections |-> EmptyMap,
              preferences |-> EmptyMap, cache |-> EmptyMap,
              lastSave |-> NoTime, at |-> NoTime, from |-> NoMaps]

\* KeyService state that no StateManager method touches
keyOther == <<passes, now, horizon, connectedDevices, activeKeys, keyOrder,
              renderQueue, lastRenderTime, errorCounts, tasks, retryTimers,
              kop, lastGood, fails>>

\* markDirty() of a state-changing operation, observed
Changes(op) ==
  IF lolScope.store THEN changed' = TRUE /\ sop' = op
                    ELSE UNCHANGED <<changed, sop>>
\* the observation of a StateManager operation, where they are observed
Seen(op) == IF lolScope.store THEN op ELSE NoOp

\* updateKeyState and updateConnectionState: the state filed is the data of
\* the call (its lastUpdate stamp is left out)
UpdateKeyState(keyUid, data) ==
  /\ keyStates' = [keyStates EXCEPT ![keyUid] = data]
  /\ isDirty' = TRUE
  /\ Changes([op |-> "updateKeyState", key |-> keyUid])
  /\ UNCHANGED <<lolVars, connVars, keyOther, aside, state, storeRest,
                 ttlGiven>>

UpdateConnectionState(service, connectionData) ==
  /\ state' = [state EXCEPT !.connections =
                 MapSet(@, <<"string", service>>, connectionData)]
  /\ isDirty' = TRUE
  /\ Changes([op |-> "updateConnectionState", key |-> service])
  /\ UNCHANGED <<lolVars, connVars, keyOther, keyStates, aside, storeRest,
                 ttlGiven>>

SetPreference(key, value) ==
  /\ state' = [state EXCEPT !.preferences =
                 MapSet(@, <<"string", key>>, value)]
  /\ isDirty' = TRUE
  /\ Changes([op |-> "setPreference", key |-> key])
  /\ UNCHANGED <<lolVars, connVars, keyOther, keyStates, aside, storeRest,
                 ttlGiven>>

SetCache(key, data, ttl) ==
  LET timestamp == now
      expiry == IF Truthy(ttl) THEN timestamp + ttl ELSE NoExpiry
  IN /\ state' = [state EXCEPT !.cache =
                    MapSet(@, <<"string", key>>,
                           [data |-> data, timestamp |-> timestamp,
                            expiry |-> expiry])]
     /\ isDirty' = TRUE
     /\ ttlGiven' = IF lolScope.store THEN [ttlGiven EXCEPT ![key] = ttl]
                                       ELSE ttlGiven
     /\ Changes([op |-> "setCache", key |-> key])
     /\ UNCHANGED <<lolVars, connVars, keyOther, keyStates, aside,
                    storeRest>>

\* entry.expiry && Date.now() > entry.expiry
Expired(entry, t) == entry.expiry # NoExpiry /\ t > entry.expiry

\* getCache(key) at time t answers with data: the entry exists and has not
\* expired
CacheHit(cache, k, t) == k \in DOMAIN cache /\ ~Expired(cache[k], t)

\* saveState: writes the document, unless nothing changed since the last
\* save
SaveState ==
  /\ isDirty
  /\ persistenceFile' =
       [exists |-> TRUE,
        keys |-> ObjectFromEntries(KeysMap(keyStates)),
        connections |-> ObjectFromEntries(state.connections),
        preferences |-> ObjectFromEntries(state.preferences),
        cache |-> ObjectFromEntries(state.cache),
        lastSave |-> now]
  /\ isDirty' = FALSE
  /\ state' = [state EXCEPT !.lastSave = now]
  /\ savedFrom' = [keys |-> KeysMap(keyStates),
                   connections |-> state.connections,
                   preferences |-> state.preferences,
                   cache |-> state.cache]
  /\ changed' = FALSE
  /\ sop' = Seen([op |-> "saveState"])
  /\ UNCHANGED <<lolVars, connVars, keyOther, keyStates, aside, fresh,
                 saves, tempFile, autoSaveTimer, ttlGiven>>

\* the cache entries that loadState keeps; timestamp is a Date.now() value,
\* never 0
ValidCache(value) == (now - value.timestamp) < maxCacheAge
ValidEntries(o) == [p \in {q \in DOMAIN o : ValidCache(o[q])} |-> o[p]]

\* initialize() of a newly constructed StateManager: loadState reads the
\* document (without a document it starts empty)
LoadState ==
  /\ persistenceFile.exists
  /\ fresh' = [loaded |-> TRUE,
               keys |-> MapOfEntries(persistenceFile.keys),
               connections |->
                 MapOfEntries(persistenceFile.connections),
               preferences |->
                 MapOfEntries(persistenceFile.preferences),
               cache |-> MapOfEntries(ValidEntries(persistenceFile.cache)),
               lastSave |-> persistenceFile.lastSave,
               at |-> now,
               from |-> savedFrom]
  /\ sop' = Seen([op |-> "loadState"])
  /\ UNCHANGED <<lolVars, connVars, keyVars, aside, state, persistenceFile,
                 savedFrom, saves, tempFile, autoSaveTimer, changed,
                 ttlGiven>>

(***************************************************************************)
(* StateManager: saveState step by step.  The call checks isDirty, builds  *)
(* the document and awaits fs.mkdir, fs.writeFile of the temporary file    *)
(* and fs.rename of it onto the persistence file.  A file name leads to a  *)
(* file (inode): writeFile opens the file of the name `.tmp`, cut to       *)
(* length 0, and later writes its text into the file it opened, whatever   *)
(* name leads to that file by then; rename makes the persistence name lead *)
(* to the file of the temporary name.                                      *)
(***************************************************************************)
SaveIds == 1..MaxSaves
\* who called saveState: "core" is StateManager.shutdown reached from
\* PluginCore.shutdown through KeyService.shutdown
Callers == {"auto", "force", "reset", "shutdown", "core"}

\* a file that exists and does not hold a complete document: its text was
\* cut, is being written, or is a mix of two texts
Incomplete == [exists |-> TRUE, keys |-> EmptyMap, connections |-> EmptyMap,
               preferences |-> EmptyMap, cache |-> EmptyMap,
               lastSave |-> NoTime]

\* `serializable` of saveState for the given Maps
Serializable(st, ks) ==
  [exists |-> TRUE,
   keys |-> ObjectFromEntries(KeysMap(ks)),
   connections |-> ObjectFromEntries(st.connections),
   preferences |-> ObjectFromEntries(st.preferences),
   cache |-> ObjectFromEntries(st.cache),
   lastSave |-> now]

FreeSave == CHOOSE i \in SaveIds : saves[i] = NoSave

\* saveState() up to its first await
SaveStateCall(caller, dirty, st, ks) ==
  IF dirty
    THEN /\ \E i \in SaveIds : saves[i] = NoSave
         /\ saves' = [saves EXCEPT ![FreeSave] =
                        [stage |-> "mkdir", caller |-> caller,
                         doc |-> Serializable(st, ks), on |-> "",
                         over |-> FALSE]]
    ELSE UNCHANGED saves

ClearedState == [connections |-> EmptyMap, preferences |-> EmptyMap,
                 cache |-> EmptyMap, lastSave |-> NoTime]
ClearedKeys == [u \in Uids |-> Undefined]

\* the callback of the auto-save interval
AutoSave ==
  /\ autoSaveTimer
  /\ SaveStateCall("auto", isDirty, state, keyStates)
  /\ sop' = [op |-> "saveState", caller |-> "auto", dirty |-> isDirty]
  /\ UNCHANGED <<lolVars, connVars, keyVars, aside, state, persistenceFile,
                 fresh, savedFrom, tempFile, autoSaveTimer, changed,
                 ttlGiven>>

\* forceSave()
ForceSave ==
  /\ autoSaveTimer
  /\ isDirty' = TRUE
  /\ SaveStateCall("force", TRUE, state, keyStates)
  /\ sop' = [op |-> "saveState", caller |-> "force", dirty |-> TRUE]
  /\ UNCHANGED <<lolVars, connVars, keyOther, keyStates, aside, state,
                 persistenceFile, fresh, savedFrom, tempFile, autoSaveTimer,
                 changed, ttlGiven>>

\* reset()
Reset ==
  /\ autoSaveTimer
  /\ state' = ClearedState
  /\ keyStates' = ClearedKeys
  /\ isDirty' = TRUE
  /\ changed' = TRUE
  /\ SaveStateCall("reset", TRUE, ClearedState, ClearedKeys)
  /\ sop' = [op |-> "saveState", caller |-> "reset", dirty |-> TRUE]
  /\ UNCHANGED <<lolVars, connVars, keyOther, aside, persistenceFile, fresh,
                 savedFrom, tempFile, autoSaveTimer, ttlGiven>>

\* shutdown(); the plugin calls no method of the StateManager after it
StateManagerShutdown ==
  /\ autoSaveTimer
  /\ autoSaveTimer' = FALSE
  /\ SaveStateCall("shutdown", isDirty, state, keyStates)
  /\ IF isDirty
       THEN UNCHANGED <<state, keyStates, isDirty>>
       ELSE /\ state' = [ClearedState EXCEPT !.lastSave = state.lastSave]
            /\ keyStates' = ClearedKeys
            /\ isDirty' = FALSE
  /\ sop' = [op |-> "saveState", caller |-> "shutdown", dirty |-> isDirty]
  /\ UNCHANGED <<lolVars, connVars, keyOther, aside, persistenceFile, fresh,
                 savedFrom, tempFile, changed, ttlGiven>>

(***************************************************************************)
(* PluginCore.shutdown                                                     *)
(***************************************************************************)
\* KeyService.shutdown up to its await on stateManager.shutdown(): the
\* timers of the renderQueue entries are cancelled and the Maps cleared;
\* draw calls in flight and timers without an entry live on
KeyServiceShutdown ==
  /\ tasks' = TasksAfterRemoval(tasks, renderQueue, KeyIds)
  /\ renderQueue' = [k \in KeyIds |-> 0]
  /\ activeKeys' = [k \in KeyIds |-> "none"]
  /\ keyOrder' = <<>>
  /\ passes' = PassesAfterRemoval(passes, keyOrder, KeyIds)
  /\ lastRenderTime' = [k \in KeyIds |-> NoTime]
  /\ errorCounts' = [k \in KeyIds |-> 0]
  /\ connectedDevices' = {}
  /\ lastGood' = [k \in KeyIds |-> NoTime]
  /\ fails' = [k \in KeyIds |-> 0]

\* PluginCore.shutdown after keyService.shutdown() has resolved:
\* lolDataService.shutdown(), then the fields of the core are cleared.
\* handleConnectionChange runs with keyService null: it records the state
\* and the TypeError of its renderConnectionState call is caught
CoreShutdownEnd ==
  /\ Quiet /\ UNCHANGED attemptsStarted
  /\ processMonitor' = FALSE
  /\ intervalTimers' = StoppedTimers(intervalTimers, endpointPollers)
  /\ endpointPollers' = NoPollers
  /\ dataCache' = [e \in Endpoints |-> Undefined]
  /\ isConnected' = FALSE
  /\ IF isConnected
       THEN /\ ccParity' = ~ccParity
            /\ ccLast' = <<FALSE>>
            /\ coreParity' = IF currentConnectionState # "disconnected"
                               THEN ~coreParity ELSE coreParity
       ELSE UNCHANGED <<ccParity, ccLast, coreParity>>
  /\ currentConnectionState' = "disconnected"
  /\ axios' = FALSE
  /\ isInitialized' = FALSE
  /\ listening' = FALSE
  /\ gsLog' = <<>> /\ pollHist' = <<>>
  /\ registeredKeys' = {}
  /\ UNCHANGED <<connectionAttempts, lastKnownGameState, leagueRunning,
                 pollsInFlight, attempts, checksInFlight, reconnectTimers,
                 reinit>>

\* PluginCore.shutdown where the identifier `plugin` of line 386 resolves
\* (a host that defines it as a global): up to the first await that waits
\* for something, which is the mkdir of saveState when the state is dirty
CoreShutdown ==
  /\ autoSaveTimer /\ listening
  /\ autoSaveTimer' = FALSE
  /\ KeyServiceShutdown
  /\ kop' = [op |-> "shutdown", result |-> "begun"]
  /\ sop' = Seen([op |-> "saveState", caller |-> "core", dirty |-> isDirty])
  /\ SaveStateCall("core", isDirty, state, keyStates)
  /\ IF isDirty
       THEN UNCHANGED <<state, keyStates, isDirty, lolVars, connVars,
                        registeredKeys>>
       ELSE /\ state' = [ClearedState EXCEPT !.lastSave = state.lastSave]
            /\ keyStates' = ClearedKeys
            /\ isDirty' = FALSE
            /\ CoreShutdownEnd
  /\ UNCHANGED <<now, horizon, retryTimers, scope, handlerVars, rankVars,
                 persistenceFile, fresh, savedFrom, tempFile, changed,
                 ttlGiven>>

\* PluginCore.shutdown where `plugin` is not defined (PluginCore.js has no
\* binding of that name): line 386 throws a ReferenceError, the catch block
\* rethrows it, and isShuttingDown stays set, so that a later call returns
\* at once
CoreShutdown_Throws ==
  /\ autoSaveTimer /\ listening
  /\ kop' = [op |-> "shutdown", result |-> "error"]
  /\ UNCHANGED <<lolFrame, passes, now, horizon, connectedDevices,
                 activeKeys, keyOrder, renderQueue, lastRenderTime,
                 errorCounts, keyStates, isDirty, tasks, retryTimers,
                 lastGood, fails>>

\* the saves whose writeFile holds the file of the given name open
WritersOn(sv, name) ==
  {j \in SaveIds : sv[j].stage = "write" /\ sv[j].on = name}

\* fs.mkdir has resolved and fs.writeFile opens the temporary file
SaveOpen(i) ==
  /\ saves[i].stage = "mkdir"
  /\ saves' = [saves EXCEPT ![i].stage = "write", ![i].on = "temp"]
  /\ tempFile' = Incomplete
  /\ sop' = [op |-> "open", caller |-> saves[i].caller, changed |-> changed]
  /\ UNCHANGED <<lolVars, connVars, keyVars, aside, state, persistenceFile,
                 fresh, savedFrom, autoSaveTimer, changed, ttlGiven>>

\* fs.writeFile writes its text and resolves; saveState calls fs.rename.
\* Where another writeFile wrote into the same file meanwhile, the text of
\* the file is the later one or a mix of the two.
SaveWritten(i, mixed) ==
  LET sv == saves[i]
      text == IF mixed THEN Incomplete ELSE sv.doc
  IN /\ sv.stage = "write"
     /\ mixed => sv.over
     /\ saves' = [j \in SaveIds |->
                    IF j = i THEN [sv EXCEPT !.stage = "rename", !.on = ""]
                    ELSE IF j \in WritersOn(saves, sv.on)
                      THEN [saves[j] EXCEPT !.over = TRUE]
                    ELSE saves[j]]
     /\ tempFile' = IF sv.on = "temp" THEN text ELSE tempFile
     /\ persistenceFile' = IF sv.on = "file" THEN text ELSE persistenceFile
     /\ sop' = [op |-> "write", caller |-> sv.caller, changed |-> changed]
     /\ UNCHANGED <<lolVars, connVars, keyVars, aside, state, fresh,
                    savedFrom, autoSaveTimer, changed, ttlGiven>>

\* fs.rename settles.  With the temporary file in place saveState goes on
\* to clear isDirty and to stamp metadata.lastSave; without it (ENOENT)
\* saveState throws.
SaveRenamed(i) ==
  LET sv == saves[i]
      ok == tempFile.exists
  IN /\ sv.stage = "rename"
     /\ saves' = [j \in SaveIds |->
                    IF j = i THEN NoSave
                    ELSE IF ok /\ j \in WritersOn(saves, "temp")
                      THEN [saves[j] EXCEPT !.on = "file"]
                    ELSE IF ok /\ j \in WritersOn(saves, "file")
                      THEN [saves[j] EXCEPT !.on = "gone"]
                    ELSE saves[j]]
     /\ persistenceFile' = IF ok THEN tempFile ELSE persistenceFile
     /\ tempFile' = NoFile
     /\ changed' = IF ok THEN FALSE ELSE changed
     /\ IF sv.caller \in {"shutdown", "core"}
          THEN /\ state' = [ClearedState EXCEPT
                              !.lastSave = IF ok THEN now ELSE state.lastSave]
               /\ keyStates' = ClearedKeys
               /\ isDirty' = FALSE
          ELSE /\ state' = IF ok THEN [state EXCEPT !.lastSave = now]
                                 ELSE state
               /\ isDirty' = IF ok THEN FALSE ELSE isDirty
               /\ UNCHANGED keyStates
     /\ sop' = [op |-> IF ok THEN "saved" ELSE "saveFailed",
                caller |-> sv.caller, changed |-> changed]
     /\ IF sv.caller = "core"
          THEN CoreShutdownEnd
          ELSE UNCHANGED <<lolVars, connVars, registeredKeys>>
     /\ UNCHANGED <<keyOther, scope, handlerVars, rankVars, fresh,
                    savedFrom, autoSaveTimer, ttlGiven>>

\* the process ends at this point: the calls in flight are gone, the files
\* stay as they are
Crash ==
  /\ \E i \in SaveIds : saves[i] # NoSave
  /\ saves' = [i \in SaveIds |-> NoSave]
  /\ autoSaveTimer' = FALSE
  /\ sop' = [op |-> "crash"]
  /\ UNCHANGED <<lolVars, connVars, keyVars, aside, state, persistenceFile,
                 fresh, savedFrom, tempFile, changed, ttlGiven>>

\* removePreference(key)
RemovePreference(key) ==
  LET k == <<"string", key>>
      removed == k \in DOMAIN state.preferences
  IN /\ state' = [state EXCEPT !.preferences =
                    [x \in DOMAIN @ \ {k} |-> @[x]]]
     /\ isDirty' = (isDirty \/ removed)
     /\ changed' = (changed \/ removed)
     /\ sop' = [op |-> "removePreference", key |-> key, removed |-> removed]
     /\ UNCHANGED <<lolVars, connVars, keyOther, keyStates, aside, storeRest,
                    ttlGiven>>

\* getCache(key)
GetCache(key) ==
  LET k == <<"string", key>>
      hasEntry == k \in DOMAIN state.cache
      expired == hasEntry /\ Expired(state.cache[k], now)
      found == hasEntry /\ ~expired
  IN /\ state' = IF expired
                   THEN [state EXCEPT !.cache =
                           [x \in DOMAIN @ \ {k} |-> @[x]]]
                   ELSE state
     /\ isDirty' = (isDirty \/ expired)
     /\ changed' = (changed \/ expired)
     /\ sop' = [op |-> "getCache", key |-> key,
                result |-> IF found THEN state.cache[k].data ELSE "null",
                entry |-> IF hasEntry THEN <<state.cache[k]>> ELSE <<>>,
                ttl |-> ttlGiven[key], at |-> now]
     /\ UNCHANGED <<lolVars, connVars, keyOther, keyStates, aside, storeRest,
                    ttlGiven>>


InitStateManager ==
  /\ state = [connections |-> EmptyMap, preferences |-> EmptyMap,
              cache |-> EmptyMap, lastSave |-> NoTime]
  /\ persistenceFile = NoFile
  /\ fresh = NotLoaded
  /\ savedFrom = NoMaps
  /\ saves = [i \in 1..MaxSaves |-> NoSave]
  /\ tempFile = NoFile
  /\ autoSaveTimer = TRUE
  /\ sop = NoOp
  /\ changed = FALSE
  /\ ttlGiven = [c \in CacheKeys |-> NullTtl]

(***************************************************************************)
(* Specification of the connection and polling state machine               *)
(***************************************************************************)
InitLoL ==
  /\ isConnected = FALSE
  /\ isInitialized = FALSE
  /\ connectionAttempts = 0
  /\ axios = FALSE
  /\ processMonitor = FALSE
  /\ endpointPollers = NoPollers
  /\ dataCache = [e \in Endpoints |-> Undefined]
  /\ lastKnownGameState = Undefined
  /\ leagueRunning \in BOOLEAN
  /\ intervalTimers = [e \in Endpoints |-> 0]
  /\ pollsInFlight = [e \in Endpoints |-> 0]
  /\ attempts = [k \in AttemptKinds |-> 0]
  /\ checksInFlight = [b \in BOOLEAN |-> 0]
  /\ reconnectTimers = 0
  /\ listening = TRUE
  /\ gsLog = <<>> /\ pollHist = <<>>
  /\ lop = NoOp /\ attemptsStarted = 0

(***************************************************************************)
(* Rank keys (src/src/keys/rankKey.js): the queue shown by each widget     *)
(***************************************************************************)
QUEUE_PRIORITY == <<"RANKED_SOLO_5x5", "RANKED_FLEX_SR", "RANKED_FLEX_TT">>
Queues == {QUEUE_PRIORITY[i] : i \in 1..Len(QUEUE_PRIORITY)}
\* the rank widgets that the model follows
RankWidgets == {<<"d1", 1>>, <<"d1", 2>>, <<"d2", 1>>}

Includes(seq, x) == \E i \in 1..Len(seq) : seq[i] = x
IndexOf(seq, x) == CHOOSE i \in 1..Len(seq) : seq[i] = x

\* Array.prototype.filter over QUEUE_PRIORITY
RECURSIVE FilterQueues(_, _)
FilterQueues(seq, R) ==
  IF seq = <<>> THEN <<>>
  ELSE (IF Head(seq) \in R THEN <<Head(seq)>> ELSE <<>>)
         \o FilterQueues(Tail(seq), R)

\* getAvailableQueues
GetAvailableQueues(R) == FilterQueues(QUEUE_PRIORITY, R)

\* the first queue of QUEUE_PRIORITY that is available and not used
FirstUnused(availableQueues, usedQueues) ==
  LET I == {i \in 1..Len(QUEUE_PRIORITY) :
              /\ Includes(availableQueues, QUEUE_PRIORITY[i])
              /\ QUEUE_PRIORITY[i] \notin usedQueues}
  IN IF I = {} THEN availableQueues[1]
     ELSE QUEUE_PRIORITY[CHOOSE i \in I : \A j \in I : i <= j]

\* getDefaultQueueForKey (called with at least one available queue)
GetDefaultQueueForKey(sel, keyId, availableQueues) ==
  LET activeRankKeys == {id \in RankWidgets :
                           /\ sel[id] # Undefined
                           /\ Includes(availableQueues, sel[id])}
      usedQueues == {sel[id] : id \in activeRankKeys}
  IN IF activeRankKeys = {} \/ Len(availableQueues) = 1
       THEN availableQueues[1]
     ELSE IF /\ "RANKED_SOLO_5x5" \in usedQueues
             /\ Includes(availableQueues, "RANKED_FLEX_SR")
       THEN "RANKED_FLEX_SR"
     ELSE IF /\ "RANKED_FLEX_SR" \in usedQueues
             /\ Includes(availableQueues, "RANKED_SOLO_5x5")
       THEN "RANKED_SOLO_5x5"
     ELSE FirstUnused(availableQueues, usedQueues)

\* getCurrentQueue: the selections after the call and what it returns
GetCurrentQueue(sel, keyId, availableQueues) ==
  IF Len(availableQueues) = 0 THEN [sel |-> sel, result |-> "null"]
  ELSE IF sel[keyId] = Undefined \/ ~Includes(availableQueues, sel[keyId])
    THEN LET q == GetDefaultQueueForKey(sel, keyId, availableQueues)
         IN [sel |-> [sel EXCEPT ![keyId] = q], result |-> q]
  ELSE [sel |-> sel, result |-> sel[keyId]]

CycleToNextQueue_First(sel, keyId, availableQueues) ==
  IF Len(availableQueues) <= 1
    THEN GetCurrentQueue(sel, keyId, availableQueues)
  ELSE LET c == GetCurrentQueue(sel, keyId, availableQueues)
           q == availableQueues[1]
       IN [sel |-> [c.sel EXCEPT ![keyId] = q], result |-> q]

\* cycleToNextQueue
CycleToNextQueue(sel, keyId, availableQueues) ==
  IF Len(availableQueues) <= 1
    THEN GetCurrentQueue(sel, keyId, availableQueues)
  ELSE LET c == GetCurrentQueue(sel, keyId, availableQueues)
           currentIndex == IndexOf(availableQueues, c.result)
           nextIndex == (currentIndex % Len(availableQueues)) + 1
           q == availableQueues[nextIndex]
       IN [sel |-> [c.sel EXCEPT ![keyId] = q], result |-> q]

NoRop == [op |-> "none"]

InitRankKeys ==
  /\ keyQueueSelections = [k \in RankWidgets |-> Undefined]
  /\ rankKeys = {}
  /\ rankedQueues = {}
  /\ drawn = {}
  /\ rop = NoRop

\* the ranked stats of the summoner change
RankedChange(R) ==
  /\ R # rankedQueues
  /\ rankedQueues' = R
  /\ drawn' = {}
  /\ rop' = NoRop
  /\ UNCHANGED <<lolVars, connVars, keyVars, scope, store, handlerVars,
                 registeredKeys, keyQueueSelections, rankKeys>>

\* KeyHandlers.initializeKey for a rank widget with League connected, or
\* handleRankedUpdate for a registered one: initializeRankKey renders the
\* widget with the queue that getCurrentQueue answers
InitializeRankKey(keyId) ==
  LET availableQueues == GetAvailableQueues(rankedQueues)
      c == GetCurrentQueue(keyQueueSelections, keyId, availableQueues)
  IN /\ rankKeys' = rankKeys \cup {keyId}
     /\ keyQueueSelections' = c.sel
     /\ drawn' = drawn \cup {keyId}
     /\ rop' = [op |-> "render", key |-> keyId, avail |-> rankedQueues,
                result |-> c.result, registered |-> rankKeys]
     /\ UNCHANGED <<lolVars, connVars, keyVars, scope, store, handlerVars,
                    registeredKeys, rankedQueues>>

\* handleRankKeyInteraction: a press on a registered rank widget cycles
\* its queue and renders it again
HandleRankKeyInteraction(keyId) ==
  LET availableQueues == GetAvailableQueues(rankedQueues)
      n == CycleToNextQueue(keyQueueSelections, keyId, availableQueues)
      c == GetCurrentQueue(n.sel, keyId, availableQueues)
  IN /\ keyId \in rankKeys
     /\ keyQueueSelections' = c.sel
     /\ drawn' = drawn \cup {keyId}
     /\ rop' = [op |-> "press", key |-> keyId, avail |-> rankedQueues,
                result |-> c.result, registered |-> rankKeys]
     /\ UNCHANGED <<lolVars, connVars, keyVars, scope, store, handlerVars,
                    registeredKeys, rankedQueues, rankKeys>>

\* KeyHandlers.cleanupKeysForDevice, the listener of deviceDisconnected:
\* the widgets of the device leave activeKeys; the rank keys module keeps
\* what it stored for them
CleanupKeysForDevice(serialNumber) ==
  /\ rankKeys \cap KeysOf({serialNumber}) # {}
  /\ rankKeys' = rankKeys \ KeysOf({serialNumber})
  /\ rop' = [op |-> "cleanup", device |-> serialNumber]
  /\ UNCHANGED <<lolVars, connVars, keyVars, scope, store, handlerVars,
                 registeredKeys, rankedQueues, keyQueueSelections, drawn>>

\* new KeyHandlers(keyService), and the live-game module when loaded
InitKeyHandlers ==
  /\ isInGame = FALSE
  /\ liveKeys = {}
  /\ liveGameUpdateTimer = FALSE
  /\ liveIntervals = 0
  /\ cachedGameState = "null"
  /\ lastGameStateCheck = 0
  /\ liveCalls = <<>>
  /\ hop = NoHop

InitCore ==
  /\ InitKeyHandlers /\ InitRankKeys
  /\ registeredKeys = {}
  /\ reinit = <<>>
  /\ ccParity = FALSE
  /\ ccLast = <<>>
  /\ currentConnectionState = "disconnected"
  /\ coreParity = FALSE

InitKeyAt(h) ==
  /\ passes = <<>>
  /\ now = 1
  /\ horizon = h
  /\ connectedDevices = {}
  /\ activeKeys = [k \in KeyIds |-> "none"]
  /\ keyOrder = <<>>
  /\ renderQueue = [k \in KeyIds |-> 0]
  /\ lastRenderTime = [k \in KeyIds |-> NoTime]
  /\ errorCounts = [k \in KeyIds |-> 0]
  /\ keyStates = [u \in Uids |-> Undefined]
  /\ isDirty = FALSE
  /\ tasks = [i \in 1..MaxTasks |-> FreeTask]
  /\ retryTimers = [k \in KeyIds |-> <<>>]
  /\ kop = NoOp
  /\ lastGood = [k \in KeyIds |-> NoTime]
  /\ fails = [k \in KeyIds |-> 0]

InitKey == InitKeyAt(1)

\* draw outcomes by the code that awaits the draw
AllDraws(outcomes) ==
  [via \in {"update", "timer", "try", "fallback"} |-> outcomes]
PassDraws(outcomes) ==
  [via \in {"update", "timer", "try", "fallback"} |->
     IF via \in {"try", "fallback"} THEN outcomes ELSE {"ok"}]

NoKeyScope == [devices |-> {}, uids |-> {}, data |-> {},
               draw |-> AllDraws({}),
               canvas |-> {}, spacing |-> FALSE, reinit |-> FALSE]

InitScope(a, h) ==
  /\ attemptCap = a /\ histCap = h /\ keyScope = NoKeyScope
  /\ uidType = "string" /\ lolScope = NoLolScope

\* connection attempts racing each other, polls unrecorded
Init == InitLoL /\ InitCore /\ InitStateManager /\ InitKey /\ InitScope(MaxConcurrentAttempts, 0)

\* one connection attempt at a time, gameflow responses recorded
InitPoll == InitLoL /\ InitCore /\ InitStateManager /\ InitKey /\ InitScope(1, MaxPolls)

Next ==
  \/ Initialize
  \/ \E c \in {"init", "reconnect"} : DiscoverDone(c)
  \/ \E c \in {"init", "reconnect"} : ValidateDone(c)
  \/ ReconnectDelayDone
  \/ ReconnectTimerFire
  \/ EnvToggle
  \/ ProcessCheckTick
  \/ \E r \in BOOLEAN : ProcessCheckDone(r)
  \/ ForceReconnect
  \/ Shutdown
  \/ \E e \in Endpoints : PollTick(e)
  \/ \E e \in Endpoints : \E d \in Phases \cup {OtherData} : PollSuccess(e, d)
  \/ \E e \in Endpoints : PollFailure(e)

Spec == Init /\ [][Next]_vars

SpecPoll == InitPoll /\ [][Next]_vars

\* one connection attempt at a time, the polls completed are observed
InitData ==
  /\ InitLoL /\ InitCore /\ InitStateManager /\ InitKey
  /\ attemptCap = 1 /\ histCap = 0 /\ keyScope = NoKeyScope
  /\ uidType = "string" /\ lolScope = [ops |-> TRUE, starts |-> FALSE, live |-> FALSE,
                 store |-> FALSE]

SpecData == InitData /\ [][Next]_vars

\* connection attempts racing each other, the attempts of handleReconnection
\* are counted
InitReconn ==
  /\ InitLoL /\ InitCore /\ InitStateManager /\ InitKey
  /\ attemptCap = MaxConcurrentAttempts /\ histCap = 0
  /\ keyScope = NoKeyScope
  /\ uidType = "string" /\ lolScope = [ops |-> FALSE, starts |-> TRUE, live |-> FALSE,
                 store |-> FALSE]

SpecReconn == InitReconn /\ [][Next]_vars

(***************************************************************************)
(* Specification of the key service under connection reports               *)
(***************************************************************************)
Completion(i, o) ==
  /\ tasks[i].st = "draw"
  /\ o \in keyScope.draw[tasks[i].via]
  /\ DrawDone(i, o)

\* two widgets inside one throttle window: devices, registration,
\* updateKey, draws that succeed or fail
InitKeys ==
  /\ InitLoL /\ leagueRunning
  /\ InitCore /\ InitStateManager /\ InitKeyAt(1)
  /\ attemptCap = 0 /\ histCap = 0 /\ uidType = "string"
  /\ lolScope = NoLolScope
  /\ keyScope = [devices |-> {"d1"}, uids |-> Uids, data |-> {"A"},
                 draw |-> AllDraws({"ok", "transient", "dead"}),
                 canvas |-> {}, spacing |-> FALSE, reinit |-> FALSE]

NextKeys ==
  \/ \E D \in SUBSET keyScope.devices : HandleDeviceStatus(D)
  \/ \E d \in keyScope.devices : \E U \in SUBSET keyScope.uids :
       PluginAlive(d, U)
  \/ \E k \in KeyIds : \E data \in keyScope.data : UpdateKey(k, data)
  \/ \E i \in TaskIds : \E o \in {"ok", "transient", "dead"} : Completion(i, o)
  \/ PerformCleanup

SpecKeys == InitKeys /\ [][NextKeys]_vars

\* one widget whose updateKey draws may fail, and its retries
InitRetry ==
  /\ InitLoL /\ leagueRunning
  /\ InitCore /\ InitStateManager /\ InitKeyAt(retryDelay + 1)
  /\ attemptCap = 0 /\ histCap = 0 /\ uidType = "string"
  /\ lolScope = NoLolScope
  /\ keyScope = [devices |-> {"d1"}, uids |-> {1}, data |-> {"A"},
                 draw |-> AllDraws({"ok", "transient"}),
                 canvas |-> {}, spacing |-> FALSE, reinit |-> FALSE]

NextRetry ==
  \/ Tick
  \/ \E D \in SUBSET keyScope.devices : HandleDeviceStatus(D)
  \/ \E d \in keyScope.devices : \E U \in SUBSET keyScope.uids :
       PluginAlive(d, U)
  \/ \E k \in KeyIds : \E data \in keyScope.data : UpdateKey(k, data)
  \/ \E k \in KeyIds : \E j \in 1..MaxRetryTimers : RetryFire(k, j)
  \/ \E i \in TaskIds : \E o \in {"ok", "transient"} : Completion(i, o)
  \/ PerformCleanup

SpecRetry == InitRetry /\ [][NextRetry]_vars

\* one widget, draws that succeed, bulk passes, two throttle windows
InitThrottle ==
  /\ InitLoL /\ leagueRunning
  /\ InitCore /\ InitStateManager /\ InitKeyAt(MaxTime)
  /\ attemptCap = 0 /\ histCap = 0 /\ uidType = "string"
  /\ lolScope = NoLolScope
  /\ keyScope = [devices |-> {"d1"}, uids |-> {1}, data |-> Payloads,
                 draw |-> AllDraws({"ok"}),
                 canvas |-> {"image"}, spacing |-> TRUE, reinit |-> FALSE]

NextThrottle ==
  \/ Tick
  \/ \E D \in SUBSET keyScope.devices : HandleDeviceStatus(D)
  \/ \E d \in keyScope.devices : \E U \in SUBSET keyScope.uids :
       PluginAlive(d, U)
  \/ \E k \in KeyIds : \E data \in keyScope.data : UpdateKey(k, data)
  \/ \E i \in TaskIds : TimerFire(i)
  \/ \E i \in TaskIds : Completion(i, "ok")
  \/ \E j \in 1..MaxPasses : \E o \in keyScope.canvas : PassCanvasDone(j, o)
  \/ \E c \in BOOLEAN : ConnectionReport(c)

SpecThrottle == InitThrottle /\ [][NextThrottle]_vars

\* two widgets, bulk passes whose canvases and draws may fail
InitPass ==
  /\ InitLoL /\ leagueRunning
  /\ InitCore /\ InitStateManager /\ InitKeyAt(throttleInterval + 1)
  /\ attemptCap = 0 /\ histCap = 0 /\ uidType = "string"
  /\ lolScope = NoLolScope
  /\ keyScope = [devices |-> {"d1"}, uids |-> Uids, data |-> {"A"},
                 draw |-> PassDraws({"ok", "transient"}),
                 canvas |-> {"image", "throw"}, spacing |-> FALSE, reinit |-> FALSE]

NextPass ==
  \/ Tick
  \/ \E d \in keyScope.devices : \E U \in SUBSET keyScope.uids :
       PluginAlive(d, U)
  \/ \E k \in KeyIds : \E data \in keyScope.data : UpdateKey(k, data)
  \/ \E i \in TaskIds : TimerFire(i)
  \/ \E i \in TaskIds : \E o \in {"ok", "transient"} : Completion(i, o)
  \/ \E j \in 1..MaxPasses : \E o \in keyScope.canvas : PassCanvasDone(j, o)
  \/ \E c \in BOOLEAN : ConnectionReport(c)

SpecPass == InitPass /\ [][NextPass]_vars

(***************************************************************************)
(* Specification of the draw paths: draws issued by updateKey, by render   *)
(* timers and by bulk passes, each of which the device may refuse          *)
(***************************************************************************)
InitDraws ==
  /\ InitLoL /\ leagueRunning
  /\ InitCore /\ InitStateManager /\ InitKeyAt(MaxTime)
  /\ attemptCap = 0 /\ histCap = 0 /\ uidType = "string"
  /\ lolScope = NoLolScope
  /\ keyScope = [devices |-> {"d1"}, uids |-> {1}, data |-> {"A"},
                 draw |-> AllDraws({"ok", "transient"}),
                 canvas |-> {"image"}, spacing |-> FALSE, reinit |-> FALSE]

NextDraws ==
  \/ Tick
  \/ \E d \in keyScope.devices : \E U \in SUBSET keyScope.uids :
       PluginAlive(d, U)
  \/ \E k \in KeyIds : \E data \in keyScope.data : UpdateKey(k, data)
  \/ \E i \in TaskIds : TimerFire(i)
  \/ \E i \in TaskIds : \E o \in {"ok", "transient"} : Completion(i, o)
  \/ \E k \in KeyIds : \E j \in 1..MaxRetryTimers : RetryFire(k, j)
  \/ \E j \in 1..MaxPasses : \E o \in keyScope.canvas : PassCanvasDone(j, o)
  \/ \E c \in BOOLEAN : ConnectionReport(c)

SpecDraws == InitDraws /\ [][NextDraws]_vars

(***************************************************************************)
(* Specification of two devices that carry a widget of the same uid        *)
(***************************************************************************)
InitDevices ==
  /\ InitLoL /\ leagueRunning
  /\ InitCore /\ InitStateManager /\ InitKeyAt(1)
  /\ attemptCap = 0 /\ histCap = 0 /\ uidType = "string"
  /\ lolScope = NoLolScope
  /\ keyScope = [devices |-> Devices, uids |-> {1}, data |-> Payloads,
                 draw |-> AllDraws({"ok"}),
                 canvas |-> {"image"}, spacing |-> FALSE, reinit |-> FALSE]

NextDevices ==
  \/ \E D \in SUBSET keyScope.devices : HandleDeviceStatus(D)
  \/ \E d \in keyScope.devices : \E U \in SUBSET keyScope.uids :
       PluginAlive(d, U)
  \/ \E k \in KeyIds : \E data \in keyScope.data : UpdateKey(k, data)
  \/ \E i \in TaskIds : Completion(i, "ok")
  \/ \E j \in 1..MaxPasses : \E o \in keyScope.canvas : PassCanvasDone(j, o)

SpecDevices == InitDevices /\ [][NextDevices]_vars

(***************************************************************************)
(* Specification of the rank widgets                                       *)
(***************************************************************************)
InitRank ==
  /\ InitLoL /\ leagueRunning
  /\ InitCore /\ InitStateManager /\ InitKeyAt(1)
  /\ attemptCap = 0 /\ histCap = 0 /\ uidType = "string"
  /\ lolScope = NoLolScope
  /\ keyScope = NoKeyScope

NextRank ==
  \/ \E R \in SUBSET Queues : RankedChange(R)
  \/ \E k \in RankWidgets : InitializeRankKey(k)
  \/ \E k \in RankWidgets : HandleRankKeyInteraction(k)
  \/ \E d \in Devices : CleanupKeysForDevice(d)

SpecRank == InitRank /\ [][NextRank]_vars

(***************************************************************************)
(* Specification of the re-initialisation of the widgets on connection     *)
(***************************************************************************)
InitReinit ==
  /\ InitLoL /\ leagueRunning
  /\ InitCore /\ InitStateManager /\ InitKeyAt(2)
  /\ attemptCap = 0 /\ histCap = 0 /\ uidType = "string"
  /\ lolScope = NoLolScope
  /\ keyScope = [devices |-> {"d1"}, uids |-> Uids, data |-> {"A"},
                 draw |-> AllDraws({"ok", "dead"}),
                 canvas |-> {"image"}, spacing |-> FALSE, reinit |-> TRUE]

NextReinit ==
  \/ Tick
  \/ \E d \in keyScope.devices : \E U \in SUBSET keyScope.uids :
       PluginAlive(d, U)
  \/ \E c \in BOOLEAN : ConnectionReport(c)
  \/ \E j \in 1..MaxReinits : \E data \in keyScope.data : ReinitStep(j, data)
  \/ \E i \in TaskIds : \E o \in {"ok", "dead"} : Completion(i, o)
  \/ \E j \in 1..MaxPasses : \E o \in keyScope.canvas : PassCanvasDone(j, o)
  \/ PerformCleanup

SpecReinit == InitReinit /\ [][NextReinit]_vars

(***************************************************************************)
(* Specification of the live-game updates: the service connects and polls  *)
(* the game phase, the key handlers follow its events                      *)
(***************************************************************************)
InitLive ==
  /\ InitLoL /\ leagueRunning
  /\ InitCore /\ InitStateManager /\ InitKeyAt(MaxLiveTime)
  /\ attemptCap = 1 /\ histCap = 0 /\ keyScope = NoKeyScope
  /\ uidType = "string"
  /\ lolScope = [ops |-> FALSE, starts |-> FALSE, live |-> TRUE,
                 store |-> FALSE]

NextLive ==
  \/ Tick
  \/ Initialize
  \/ DiscoverDone("init")
  \/ ValidateDone("init")
  \/ EnvToggle
  \/ ProcessCheckTick
  \/ ProcessCheckDone(FALSE)
  \/ PollTick("gameflow")
  \/ \E d \in Phases : PollSuccess("gameflow", d)
  \/ \E w \in LiveWidgets : InitializeLiveKey(w)
  \/ LiveTimerTick
  \/ \E i \in 1..MaxLiveCalls : \E d \in Phases : LiveCallDone(i, d)
  \/ \E i \in 1..MaxLiveCalls : LiveCallFailed(i)

SpecLive == InitLive /\ [][NextLive]_vars

\* the interval keeps firing while it is set, and every request of
\* isInActiveGame returns or throws
SpecLiveFair ==
  /\ SpecLive
  /\ WF_vars(LiveTimerTick)
  /\ WF_vars(\E i \in 1..MaxLiveCalls :
               \/ LiveCallFailed(i)
               \/ \E d \in Phases : LiveCallDone(i, d))

(***************************************************************************)
(* Specification of the shutdown: the service connects and polls the game  *)
(* phase, a widget is registered and drawn, then PluginCore.shutdown runs  *)
(***************************************************************************)
InitShutdown ==
  /\ InitLoL /\ leagueRunning
  /\ InitCore /\ InitStateManager /\ InitKeyAt(2)
  /\ attemptCap = 1 /\ histCap = 0 /\ uidType = "string"
  /\ lolScope = [NoLolScope EXCEPT !.live = TRUE, !.store = TRUE]
  /\ keyScope = [devices |-> {"d1"}, uids |-> {1}, data |-> {"A"},
                 draw |-> AllDraws({"ok"}),
                 canvas |-> {}, spacing |-> FALSE, reinit |-> FALSE]

\* the host delivers plugin events until plugin.removeAllListeners()
NextShutdown ==
  \/ Tick
  \/ Initialize
  \/ DiscoverDone("init")
  \/ ValidateDone("init")
  \/ PollTick("gameflow")
  \/ \E d \in Phases : PollSuccess("gameflow", d)
  \/ LiveTimerTick
  \/ \E i \in 1..MaxLiveCalls : \E d \in Phases : LiveCallDone(i, d)
  \/ \E i \in 1..MaxLiveCalls : LiveCallFailed(i)
  \/ autoSaveTimer /\ PluginAlive("d1", {1})
  \/ UpdateKey(<<"d1", 1>>, "A")
  \/ \E i \in TaskIds : Completion(i, "ok")
  \/ CoreShutdown
  \/ CoreShutdown_Throws
  \/ \E i \in SaveIds : SaveOpen(i)
  \/ \E i \in SaveIds : SaveWritten(i, FALSE)
  \/ \E i \in SaveIds : SaveRenamed(i)

SpecShutdown == InitShutdown /\ [][NextShutdown]_vars

(***************************************************************************)
(* Specification of the state store: save and reload                       *)
(***************************************************************************)
InitState ==
  /\ InitLoL /\ leagueRunning
  /\ InitCore /\ InitKeyAt(maxCacheAge + 2)
  /\ InitStateManager
  /\ attemptCap = 0 /\ histCap = 0 /\ keyScope = NoKeyScope
  /\ lolScope = NoLolScope
  /\ uidType \in {"number", "string"}

NextState ==
  \/ Tick
  \/ \E u \in {1} : UpdateKeyState(u, "A")
  \/ \E s \in Services : UpdateConnectionState(s, "A")
  \/ \E p \in PreferenceKeys : SetPreference(p, "A")
  \/ \E c \in CacheKeys : \E ttl \in Ttls : SetCache(c, "A", ttl)
  \/ SaveState
  \/ LoadState

SpecState == InitState /\ [][NextState]_vars

(***************************************************************************)
(* Specification of the state store: saves in flight, concurrent saves,    *)
(* cache entries and their expiry                                          *)
(***************************************************************************)
InitSave ==
  /\ InitLoL /\ leagueRunning
  /\ InitCore /\ InitKeyAt(2)
  /\ InitStateManager
  /\ attemptCap = 0 /\ histCap = 0 /\ keyScope = NoKeyScope
  /\ lolScope = [NoLolScope EXCEPT !.store = TRUE]
  /\ uidType = "string"

NextSave ==
  \/ Tick
  \/ \E p \in PreferenceKeys : autoSaveTimer /\ SetPreference(p, "A")
  \/ \E p \in PreferenceKeys : autoSaveTimer /\ RemovePreference(p)
  \/ AutoSave
  \/ ForceSave
  \/ Reset
  \/ StateManagerShutdown
  \/ \E i \in SaveIds : SaveOpen(i)
  \/ \E i \in SaveIds : \E mixed \in BOOLEAN : SaveWritten(i, mixed)
  \/ \E i \in SaveIds : SaveRenamed(i)
  \/ Crash

SpecSave == InitSave /\ [][NextSave]_vars

(***************************************************************************)
(* Specification of the cache of the state store: entries set with and     *)
(* without a ttl, read as the clock advances                               *)
(***************************************************************************)
\* the ttl arguments given to setCache, null and 0 among them
GivenTtls == {NullTtl, 0, 1}

InitCache ==
  /\ InitLoL /\ leagueRunning
  /\ InitCore /\ InitKeyAt(MaxTime)
  /\ InitStateManager
  /\ attemptCap = 0 /\ histCap = 0 /\ keyScope = NoKeyScope
  /\ lolScope = [NoLolScope EXCEPT !.store = TRUE]
  /\ uidType = "string"

NextCache ==
  \/ Tick
  \/ \E c \in CacheKeys : \E ttl \in GivenTtls : SetCache(c, "A", ttl)
  \/ \E c \in CacheKeys : GetCache(c)
  \/ SaveState

SpecCache == InitCache /\ [][NextCache]_vars

(***************************************************************************)
(* Connection state reports                                                *)
(***************************************************************************)
\* C1: in every step, a connectionChanged event is emitted exactly when
\* isConnected changes (its payload is the new value), so a
\* setConnectionState call that repeats the current value emits nothing;
\* and PluginCore.handleConnectionChange acts only in a step that changes
\* its currentConnectionState.
ThmC1 ==
  [][/\ (ccParity' # ccParity) <=> (isConnected' # isConnected)
     /\ (ccParity' # ccParity) => ccLast' = <<isConnected'>>
     /\ (coreParity' # coreParity)
          => currentConnectionState' # currentConnectionState]_vars

\* connected, disconnected again, and then a reconnection attempt failed:
\* its setConnectionState(false) repeated the current value
WitnessC1 ==
  /\ ccLast = <<FALSE>> /\ ccParity = FALSE
  /\ coreParity = FALSE /\ currentConnectionState = "disconnected"
  /\ ~isConnected /\ listening /\ reconnectTimers = 1

(***************************************************************************)
(* Game phase events                                                       *)
(***************************************************************************)
\* the first three gameflow responses since the cache was empty are P, P, Q
ScenarioPPQ ==
  /\ Len(pollHist) = 3
  /\ pollHist[1] = pollHist[2]
  /\ pollHist[2] # pollHist[3]

\* C8 as stated: the responses P, P, Q from an empty cache emit exactly one
\* gameStateChanged event, the change to Q.
CexC8 ==
  ScenarioPPQ => /\ Len(gsLog) = 1
                 /\ gsLog[1].phase = pollHist[3]

\* C8 amended: the responses P, P, Q from an empty cache emit exactly two
\* gameStateChanged events: the first observation of P with no previous
\* phase, then the change from P to Q; the repeated P emits none.
ThmC8 ==
  ScenarioPPQ =>
    gsLog = <<[phase |-> pollHist[1], previous |-> Undefined],
              [phase |-> pollHist[3], previous |-> pollHist[1]]>>

WitnessC8 ==
  /\ pollHist = <<"ChampSelect", "ChampSelect", "InProgress">>
  /\ Len(gsLog) = 2

\* the events recorded so far form a chain
EventChain(log) ==
  \A i \in 1..Len(log) :
    /\ log[i].previous = (IF i = 1 THEN Undefined ELSE log[i-1].phase)
    /\ log[i].phase # log[i].previous

\* C9: a step emits gameStateChanged only if it replaces the cached
\* gameflow phase by a different one, the event carrying the new phase and
\* the replaced one; so consecutive events never carry the same phase and
\* each event's previous field is the phase of the event before it
\* (undefined for the first).
ThmC9 ==
  [][/\ (gsLog' # gsLog /\ gsLog' # <<>>)
          => /\ gsLog' = Append(gsLog, [phase |-> dataCache'["gameflow"],
                                        previous |-> dataCache["gameflow"]])
             /\ dataCache'["gameflow"] # dataCache["gameflow"]
     /\ EventChain(gsLog')]_vars

\* three events in a row: P, then Q, then P again
WitnessC9 ==
  /\ Len(gsLog) = 3
  /\ gsLog[3].phase = gsLog[1].phase

(***************************************************************************)
(* Poll timers                                                             *)
(***************************************************************************)
\* C10 as stated: whenever the service is connected, exactly one interval
\* timer is alive for each endpoint.
CexC10 ==
  isConnected => \A e \in Endpoints : intervalTimers[e] = 1

(***************************************************************************)
(* Render requests, spacing and retries                                    *)
(***************************************************************************)
\* C2 as stated: a render request that arrives inside the throttle window
\* of its widget is coalesced, not lost: right after the request a render
\* timer carrying its payload is pending for the widget (the one draw that
\* will carry the latest payload).
CexC2 ==
  (kop.op = "updateKey" /\ kop.result = "throttled")
    => \E i \in TaskIds : /\ tasks[i].st = "timer"
                          /\ tasks[i].key = kop.key
                          /\ tasks[i].payload = kop.payload

\* C3 as stated: a successful draw of a widget started at least
\* throttleInterval after or before the widget's previous successful draw.
CexC3 ==
  (kop.op = "drawOk" /\ ~kop.orphan) => kop.gap >= throttleInterval

\* C4 as stated: the n-th transient failure in a row of a registered
\* widget's updateKey draws schedules a retry retryDelay * n later while
\* n <= maxRetries; the failure after that marks the widget 'failed' and
\* schedules nothing.
CexC4 ==
  (kop.op = "drawFail" /\ kop.via = "update" /\ kop.kind = "transient"
   /\ kop.registered)
    => IF kop.nth <= maxRetries
         THEN /\ kop.retry = <<now + retryDelay * kop.nth>>
              /\ kop.state # "failed"
         ELSE /\ kop.retry = <<>>
              /\ kop.state = "failed"

(***************************************************************************)
(* Save and reload of the state store                                      *)
(***************************************************************************)
\* C5: after saveState and loadState into a fresh StateManager, every
\* key-state, connection and preference lookup that succeeded before the
\* save returns the same value under the same key, every cache entry whose
\* TTL has not passed at reload time is present with the same data, and
\* every cache entry whose TTL has passed is absent
CexC5 ==
  fresh.loaded =>
    /\ \A name \in {"keys", "connections", "preferences"} :
         \A k \in DOMAIN fresh.from[name] :
           /\ k \in DOMAIN fresh[name]
           /\ fresh[name][k] = fresh.from[name][k]
    /\ \A k \in DOMAIN fresh.from.cache :
         IF Expired(fresh.from.cache[k], fresh.at)
           THEN ~CacheHit(fresh.cache, k, fresh.at)
           ELSE /\ CacheHit(fresh.cache, k, fresh.at)
                /\ fresh.cache[k].data = fresh.from.cache[k].data

CexC7 ==
  (kop.op \in {"passQueue", "drawOk", "drawFail"} /\ kop.ended # "no")
    => kop.missed = {}

(***************************************************************************)
(* Sessions: teardown, late responses, reconnection                        *)
(***************************************************************************)
\* C11 as stated: in a step taken while the connection state is
\* Disconnected no dataCache entry is written (dataUpdated is emitted by
\* the statement after the write): the response of a poll that was in
\* flight at the teardown is discarded.
CexC11 ==
  [][~isConnected =>
       \A e \in Endpoints : dataCache'[e] \in {dataCache[e], Undefined}]_vars

\* C12 as stated: a step that brings the connection state back to Connected
\* starts the session with an empty dataCache.
CexC12 ==
  [][(~isConnected /\ isConnected') =>
       \A e \in Endpoints : dataCache'[e] = Undefined]_vars

\* C14 as stated: when a process check that found the client not running
\* completes while the state is Connected, the state is Disconnected, no
\* endpoint poll timer is left and the connection details and the HTTP
\* client are null.
CexC14 ==
  [][(checksInFlight'[FALSE] < checksInFlight[FALSE] /\ isConnected) =>
       /\ ~isConnected'
       /\ \A e \in Endpoints : intervalTimers'[e] = 0
       /\ ~axios']_vars

\* C15 as stated: with the reconnection attempts exhausted (the counter at
\* maxReconnectAttempts, no attempt in flight, no retry scheduled) and the
\* service Disconnected, a process check that finds the client running
\* starts a connection attempt.
CexC15 ==
  [][(/\ checksInFlight'[TRUE] < checksInFlight[TRUE]
      /\ ~isConnected
      /\ connectionAttempts >= maxReconnectAttempts
      /\ AttemptsInFlight = 0 /\ reconnectTimers = 0) =>
       SumOver(attempts', AttemptKinds) > AttemptsInFlight]_vars

(***************************************************************************)
(* Failed polls                                                            *)
(***************************************************************************)
\* C13: a step that completes a poll with a failure leaves dataCache, the
\* connection state (of the service and of PluginCore) and the endpoint
\* timers as they were and emits no dataUpdated, connectionChanged or
\* gameStateChanged event; it emits an 'error' event exactly when the
\* endpoint's suppressErrors flag is not set
ThmC13 ==
  [][lop'.op = "pollFailure" =>
       /\ UNCHANGED <<dataCache, isConnected, currentConnectionState,
                      intervalTimers, endpointPollers, ccParity, gsLog,
                      lastKnownGameState>>
       /\ ~lop'.dataUpdated
       /\ lop'.error <=> ~suppressErrors[lop'.endpoint]]_vars

\* a poll of the endpoint with suppressErrors has just failed while the
\* service is connected and a gameflow phase is cached
WitnessC13 ==
  /\ lop.op = "pollFailure"
  /\ lop.endpoint = "champselect"
  /\ isConnected
  /\ dataCache["gameflow"] # Undefined

(***************************************************************************)
(* Reconnection attempts                                                   *)
(***************************************************************************)
\* C16 as stated: connectionAttempts never exceeds maxReconnectAttempts and
\* handleReconnection has started at most maxReconnectAttempts connection
\* attempts since the counter was last reset.
CexC16 ==
  /\ connectionAttempts <= maxReconnectAttempts
  /\ attemptsStarted <= maxReconnectAttempts

(***************************************************************************)
(* Bulk passes and render timers                                           *)
(***************************************************************************)
\* C17 as stated: a draw that fails inside a bulk connection-state pass
\* does not end the pass for the active widgets that it has not rendered
\* yet.
CexC17 ==
  (kop.op = "drawFail" /\ kop.via \in {"try", "fallback"})
    => kop.missed = {}

\* C18 as stated: at most one render timer is pending per registered
\* widget.
CexC18 ==
  \A k \in KeyIds :
    Cardinality({i \in TaskIds : /\ tasks[i].st = "timer"
                                 /\ tasks[i].key = k
                                 /\ ~tasks[i].orphan}) <= 1

\* C19 as stated: right after a successful draw of a registered widget,
\* whichever path issued it, the widget's state is 'active', its error
\* count is cleared and its lastRenderTime is set.
CexC19 ==
  (kop.op = "drawOk" /\ ~kop.orphan) =>
    /\ activeKeys[kop.key] = "active"
    /\ errorCounts[kop.key] = 0
    /\ lastRenderTime[kop.key] # NoTime

(***************************************************************************)
(* Dead widgets                                                            *)
(***************************************************************************)
\* C20: when a draw issued by updateKey for a registered widget is refused
\* with a 'not alive' / 'not connected' error, the widget's error count
\* goes up by one, its state becomes 'dead' and no retry timer is added.
ThmC20 ==
  [][(/\ kop'.op = "drawFail" /\ kop'.via = "update"
      /\ kop'.kind = "dead" /\ kop'.registered) =>
       /\ errorCounts'[kop'.key] = errorCounts[kop'.key] + 1
       /\ activeKeys'[kop'.key] = "dead"
       /\ retryTimers'[kop'.key] = retryTimers[kop'.key]]_vars

WitnessC20 ==
  /\ kop.op = "drawFail" /\ kop.via = "update"
  /\ kop.kind = "dead" /\ kop.registered
  /\ kop.errorCount = 2
  /\ activeKeys[kop.key] = "dead"
  /\ Len(retryTimers[kop.key]) = 1

(***************************************************************************)
(* The state store: dirty flag, concurrent saves, cache expiry             *)
(***************************************************************************)
\* C21 as stated: while no state-changing operation was called since the
\* last successful save, no step of a saveState call opens, writes or
\* renames a file (the step that renames is the one that stamps
\* metadata.lastSave); and isDirty is false right after a successful save.
CexC21 ==
  [][saves' # saves =>
       /\ ~changed => sop'.op \notin {"open", "write", "saved"}
       /\ sop'.op = "saved" => ~isDirty']_vars

\* C22 as stated: at every point, a crash included, the persistence file
\* holds a complete document, and no saveState call fails while another
\* one runs.
CexC22 ==
  /\ persistenceFile # Incomplete
  /\ sop.op # "saveFailed"

\* C23 as stated: getCache called after the explicit ttl of the entry has
\* elapsed returns null, deletes the entry and marks the state dirty,
\* for every ttl given to setCache.
CexC23 ==
  (/\ sop.op = "getCache" /\ sop.entry # <<>>
   /\ sop.ttl # NullTtl
   /\ sop.at > sop.entry[1].timestamp + sop.ttl) =>
     /\ sop.result = "null"
     /\ <<"string", sop.key>> \notin DOMAIN state.cache
     /\ isDirty

(***************************************************************************)
(* Devices and the widgets they carry                                      *)
(***************************************************************************)
\* C24: after every step the device of each registered widget is in
\* connectedDevices; and a report that disconnects a device leaves no
\* widget of the device registered and the widgets it had without
\* renderQueue, lastRenderTime and errorCounts entries, while the key
\* states held by the StateManager and its dirty flag stay as they were.
ThmC24 ==
  [][/\ \A k \in KeyIds : activeKeys'[k] # "none" => k[1] \in connectedDevices'
     /\ (kop'.op = "deviceStatus" /\ connectedDevices' # connectedDevices) =>
          /\ keyStates' = keyStates /\ isDirty' = isDirty
          /\ \A k \in KeysOf(connectedDevices \ connectedDevices') :
               activeKeys'[k] = "none"
          /\ \A k \in KeysOf(connectedDevices \ connectedDevices')
                          \cap Registered(activeKeys) :
               /\ renderQueue'[k] = 0
               /\ lastRenderTime'[k] = NoTime
               /\ errorCounts'[k] = 0]_vars

\* a report has just disconnected the device: its two widgets are gone,
\* one of them had been drawn, and the state persisted for it is still
\* held by the StateManager
WitnessC24 ==
  /\ kop.op = "deviceStatus"
  /\ kop.was = {"d1"} /\ kop.devices = {}
  /\ kop.removed = KeysOf({"d1"})
  /\ connectedDevices = {}
  /\ keyStates[1] # Undefined /\ isDirty

\* C25: a widget is identified by its device and its uid: an updateKey that
\* draws a widget of one device leaves the persisted last-known state of
\* the registered widgets of every other device as it was, and a device
\* status report leaves the widgets of the devices that stay connected
\* registered.
CexC25 ==
  [][/\ (kop'.op = "updateKey" /\ kop'.result = "drawing") =>
          \A k \in Registered(activeKeys) :
             (k[1] # kop'.key[1] /\ keyStates[k[2]] # Undefined) =>
               keyStates'[k[2]] = keyStates[k[2]]
     /\ kop'.op = "deviceStatus" =>
          \A k \in Registered(activeKeys) :
             k[1] \in connectedDevices' => activeKeys'[k] = activeKeys[k]]_vars

(***************************************************************************)
(* Live-game updates                                                       *)
(***************************************************************************)
\* C26: when the handlers of a game-phase transition have their answer from
\* the 2-second game-state cache and none of them is left waiting for the
\* client, then after a transition into InProgress the live-game update
\* timer is running, and after a transition out of InProgress the timer is
\* stopped and the live widgets were sent to their "not in game" render.
CexC26 ==
  [][(/\ hop'.op = "asked" /\ hop'.caller = "update" /\ hop'.cached
      /\ \A i \in 1..Len(liveCalls') : liveCalls'[i].caller # "update") =>
        IF hop'.phase = "InProgress"
          THEN liveGameUpdateTimer'
          ELSE ~liveGameUpdateTimer' /\ hop'.broadcast]_vars

\* C27: when the connection is Disconnected while the live-game update
\* timer is running, the timer is eventually cleared (or the connection
\* comes back).
CexC27 ==
  (currentConnectionState = "disconnected" /\ liveGameUpdateTimer)
    ~> (~liveGameUpdateTimer \/ currentConnectionState = "connected")

\* C28: every step of a run of reinitializeAllKeys issues a draw call for
\* its widget: the draw is neither dropped by the throttle nor refused
\* because the widget is no longer registered with the key service.
CexC28 ==
  [][kop'.op = "reinit" => kop'.result = "drawing"]_vars

(***************************************************************************)
(* Rank widgets                                                            *)
(***************************************************************************)
\* the queue after q in the cyclic priority order among the queues of A:
\* the one at the least distance ahead of q, q itself being a full turn
\* ahead
NextInPriority(q, A) ==
  LET n == Len(QUEUE_PRIORITY)
      Ahead(x) == LET d == (IndexOf(QUEUE_PRIORITY, x) + n
                             - IndexOf(QUEUE_PRIORITY, q)) % n
                  IN IF d = 0 THEN n ELSE d
  IN CHOOSE x \in A : \A y \in A : Ahead(x) <= Ahead(y)

\* C29: a press or a render of a rank widget changes the selection of no
\* other widget; a press moves an available selection to the next
\* available queue in cyclic priority order; a render of a widget already
\* rendered with the same available queues changes no selection; a
\* selection that is not available is replaced by an available queue; a
\* queue that getCurrentQueue returns is available and is the stored
\* selection of the widget.
ThmC29 ==
  [][rop'.op \in {"render", "press"} =>
       LET k == rop'.key
           A == rop'.avail
       IN /\ \A j \in RankWidgets \ {k} :
                keyQueueSelections'[j] = keyQueueSelections[j]
          /\ (rop'.op = "press" /\ keyQueueSelections[k] \in A) =>
                keyQueueSelections'[k] =
                  NextInPriority(keyQueueSelections[k], A)
          /\ (rop'.op = "render" /\ k \in drawn) =>
                keyQueueSelections' = keyQueueSelections
          /\ (keyQueueSelections[k] \notin A /\ A # {}) =>
                keyQueueSelections'[k] \in A
          /\ rop'.result # "null" =>
                /\ rop'.result \in A
                /\ rop'.result = keyQueueSelections'[k]]_vars

\* a press wraps around from the last available queue to the first while
\* another widget shows a different queue
WitnessC29 ==
  /\ rop.op = "press" /\ rop.key = <<"d1", 1>>
  /\ rop.avail = {"RANKED_SOLO_5x5", "RANKED_FLEX_TT"}
  /\ rop.result = "RANKED_SOLO_5x5"
  /\ keyQueueSelections[<<"d1", 2>>] = "RANKED_FLEX_TT"
  /\ <<"d1", 1>> \in drawn

\* the queues that the registered rank widgets other than k show
UsedByOthers(k) ==
  {keyQueueSelections[j] : j \in rankKeys \ {k}} \ {Undefined}

\* C30: a rank widget without a selection that is initialised while all
\* three queues are ranked gets Solo/Duo when no other registered rank
\* widget shows a queue, Flex when the others show Solo/Duo only, and in
\* every case a queue that no other registered rank widget shows, while
\* there is one.
CexC30 ==
  [][(/\ rop'.op = "render" /\ rop'.avail = Queues
      /\ keyQueueSelections[rop'.key] = Undefined) =>
       LET k == rop'.key
           used == UsedByOthers(k)
       IN /\ used = {} => keyQueueSelections'[k] = "RANKED_SOLO_5x5"
          /\ used = {"RANKED_SOLO_5x5"} =>
                keyQueueSelections'[k] = "RANKED_FLEX_SR"
          /\ used # Queues => keyQueueSelections'[k] \notin used]_vars

\* C31: PluginCore.shutdown completes without error, and once it has
\* completed no timer of the core is active (process monitor, endpoint
\* pollers, auto-save, pending render timers, live-game update timer) and
\* the state that was dirty has been saved to the persistence file.
CexC31 ==
  /\ kop.op = "shutdown" => kop.result # "error"
  /\ ~listening =>
       /\ ~processMonitor
       /\ \A e \in Endpoints : intervalTimers[e] = 0
       /\ ~autoSaveTimer
       /\ \A i \in TaskIds : tasks[i].st # "timer"
       /\ ~liveGameUpdateTimer
       /\ sop.op # "saveFailed"
       /\ sop.op = "saved" => persistenceFile.keys # EmptyMap

\* an attempt is between setupAxiosClient and the end of its validation
Validating ==
  attempts[<<"init", "validate">>] + attempts[<<"reconnect", "validate">>] > 0

\* C32: whenever the connection state is Disconnected and no connection
\* attempt is validating the handle it has just built, no connection handle
\* is retained (the HTTP client, built from port, password and baseURL, is
\* null), so that no request can go out with the credentials of an earlier
\* attempt or session.
CexC32 == (~isConnected /\ ~Validating) => ~axios

\* C33: a step in which a connection attempt ends while the service is
\* Connected (an attempt that fails, or one that succeeds a second time)
\* leaves the state Connected and emits no connectionChanged event.
CexC33 ==
  [][(isConnected /\ AttemptsInFlight' < AttemptsInFlight) =>
       (isConnected' /\ ccParity' = ccParity)]_vars

\* C34: while the listeners of the core are attached, and between the
\* steps of the event loop (no dispatch of connectionChanged is in
\* progress then), PluginCore.currentConnectionState is 'connected' if and
\* only if LoLDataService.isConnected is true, and 'disconnected'
\* otherwise.
ThmC34 ==
  listening => currentConnectionState = ConnectionStateName(isConnected)

\* the service has connected and disconnected again, and both events
\* have reached the core
WitnessC34 ==
  /\ listening /\ ~isConnected
  /\ ccLast = <<FALSE>> /\ ~ccParity
  /\ currentConnectionState = "disconnected" /\ ~coreParity

\* C35: a bulk offline pass queues the offline placeholder of a widget only
\* while the connection state is Disconnected: once the state is Connected
\* again, the pass started for the preceding disconnection issues no
\* further offline draw.
CexC35 ==
  [][kop'.op = "passQueue" => currentConnectionState # "connected"]_vars

\* this step calls plugin.draw for task i (executeRender starts, from
\* queueRender or from a render timer)
DrawIssued(i) ==
  /\ tasks'[i].st = "draw"
  /\ [tasks'[i] EXCEPT !.orphan = FALSE] # [tasks[i] EXCEPT !.orphan = FALSE]

\* C36: every draw call is issued for a widget that is registered with the
\* KeyService at that moment: after a widget has been removed (device
\* disconnection, cleanup sweep, removeKey) no draw call is issued for it
\* until it is registered again, be it from a render timer scheduled before
\* the removal or from a bulk pass that began before it.
CexC36 ==
  [][\A i \in TaskIds :
       DrawIssued(i) => activeKeys'[tasks'[i].key] # "none"]_vars

\* C37: a widget whose state is 'dead' or 'failed' keeps that state until
\* the cleanup sweep removes it or registerKeys registers it again, and no
\* draw call is issued for it meanwhile: an updateKey for it neither draws
\* nor returns it to 'active'.
CexC37 ==
  [][\A k \in KeyIds :
       activeKeys[k] \in {"dead", "failed"} =>
         /\ activeKeys'[k] \in {activeKeys[k], "none", "inactive"}
         /\ \A i \in TaskIds : DrawIssued(i) => tasks'[i].key # k]_vars

\* the Maps in memory differ from the document of the persistence file
Unsaved ==
  [Serializable(state, keyStates) EXCEPT !.lastSave = NoTime] #
    [persistenceFile EXCEPT !.lastSave = NoTime]

\* C38: when a saveState of the running plugin completes, a change made to
\* the state while it was in progress (after its snapshot was taken) is not
\* lost: where the Maps differ from what the file holds, isDirty is true,
\* so that the next saveState writes them.
CexC38 ==
  [][(sop'.op = "saved" /\ sop'.caller \in {"auto", "force", "reset"}) =>
       (Unsaved' => isDirty')]_vars

\* C39: at most one live-game update interval exists at any time, it is
\* the one whose handle the module holds, and after
\* stopLiveGameUpdateTimer (no handle held) none exists.
ThmC39 ==
  liveIntervals = IF liveGameUpdateTimer THEN 1 ELSE 0

\* the timer runs, a phase change has been handled twice and both calls of
\* handleLiveGameUpdate wait for the client
WitnessC39 ==
  /\ liveGameUpdateTimer /\ liveIntervals = 1
  /\ Len(liveCalls) = 2
  /\ liveCalls[1].caller = "update" /\ liveCalls[2].caller = "update"
  /\ hop.op = "asked" /\ hop.caller = "update"

\* C40: renderQueue holds only render tasks that have not yet executed: a
\* widget has an entry without a pending timer only while a draw of the
\* widget is still in flight, so that renderQueue.size counts the pending
\* render timers.
CexC40 ==
  \A k \in KeyIds :
     renderQueue[k] = Stale =>
       \E i \in TaskIds : tasks[i].st = "draw" /\ tasks[i].key = k
=============================================================================
